---- MODULE Spec2Model ----
(***************************************************************************)
(* Model of the Blender AI simulation pipeline: the orchestrator           *)
(* (src/src/orchestrator/orchestrator.py), the agent base class            *)
(* (src/src/agents/base_agent.py) and the agents it sequences.             *)
(*                                                                         *)
(* Quality scores are kept in hundredths (0.8 is 80): every score the      *)
(* quality validator can compute is a sum of the weighted components, and  *)
(* the float sums order and compare against 0.8 and 0.9 exactly as the     *)
(* integer sums do.                                                        *)
(***************************************************************************)
EXTENDS Integers, Sequences, FiniteSets, TLC

\* ---------------------------------------------------------------- bounds
MaxIter == 2
MaxCalls == 2

MaxLines == 3

MaxOps == 3

MaxEdits == 2

MaxAttempts == 3

MaxJobs == 2

VARIABLES
    pc,                         \* position inside generate_simulation
    calls,                      \* number of generate_simulation calls started
    enable_auto_retry,          \* SimulationOrchestrator.enable_auto_retry
    enable_refinement,          \* argument of the current call
    max_refinement_iterations,  \* argument of the current call
    result,                     \* the SimulationResult being assembled
    enriched_plan,              \* local: current baseline plan
    code,                       \* local: artifact of the main run
    quality_metrics,            \* local: current baseline assessment
    iteration,                  \* local: loop variable of the refinement loop
    refined_plan,               \* local: plan of the running iteration
    refined_code,               \* local: artifact of the running iteration
    outfile,                    \* content of the file at output_path
    stats,                      \* per agent: execution_count, error_count
    gate,                       \* last answer of should_refine in this call
    calls_log,                  \* history: stage invocations of this call
    failure,                    \* history: exception that ended the main run
    executed,                   \* history: artifacts handed to the executor
    main_score,                 \* history: score of the main-run assessment
    accepted,                   \* history: accepted iterations of this call
    rejected_at,                \* history: iteration that was not accepted
    baseline,                   \* history: result fields before an iteration
    iter_exc,                   \* history: exception raised in an iteration
    assessed,                   \* history: artifact behind result.quality_metrics
    callback,                   \* argument of the current call: a callback is given
    progress,                   \* history: values handed to the callback
    cb_raised,                  \* history: a call of the callback raised
    gm, gt, gout,               \* quality gate checked on its own
    uin, uout                   \* one operation checked on its own: input, outcome

vars == <<pc, calls, enable_auto_retry, enable_refinement,
          max_refinement_iterations, result, enriched_plan, code,
          quality_metrics, iteration, refined_plan, refined_code, outfile,
          stats, gate, calls_log, failure, executed, main_score, accepted,
          rejected_at, baseline, iter_exc, assessed, callback, progress,
          cb_raised, gm, gt, gout, uin, uout>>

orchVars == <<pc, calls, enable_auto_retry, enable_refinement,
          max_refinement_iterations, result, enriched_plan, code,
          quality_metrics, iteration, refined_plan, refined_code, outfile,
          stats, gate, calls_log, failure, executed, main_score, accepted,
          rejected_at, baseline, iter_exc, assessed, callback, progress,
          cb_raised>>

gateVars == <<gm, gt, gout>>

unitVars == <<uin, uout>>

\* ------------------------------------------------------------ plain data
None == [none |-> TRUE]

Agents == {"PlannerAgent", "PhysicsValidatorAgent", "CodeGeneratorAgent",
           "SyntaxValidatorAgent", "ExecutorAgent", "QualityValidatorAgent",
           "RefinementAgent"}

OutputPath == "output_path"

\* A plan value: the planner's plan, the enriched plan, or the refined plan
\* of iteration iter.
Plan(kind, iter) == [kind |-> kind, iter |-> iter]

NoPlan == Plan("none", 0)

\* ------------------------------------------------------------ exceptions
\* An exception: its class, whether it is a BlenderAIError, the recoverable
\* flag its constructor sets, str(e) as a sequence of text pieces, and the
\* validation_type of a ValidationError ("" for the other classes).  The
\* timeout_seconds attribute, which only a TimeoutError has, is 0 elsewhere.
\* error_type is the name of the ErrorType member ("" for None) and
\* suggested_action a sequence of text pieces (<<>> for None); the
\* constructors below set them.
Exc(cls, taxonomy, recoverable, msg, validation_type) ==
    [cls |-> cls, taxonomy |-> taxonomy, recoverable |-> recoverable,
     msg |-> msg, validation_type |-> validation_type, timeout_seconds |-> 0,
     error_type |-> "", suggested_action |-> <<>>]

ErrorTypes ==
    {"SYNTAX_ERROR", "API_ERROR", "PHYSICS_ERROR", "MEMORY_ERROR",
     "LOGIC_ERROR", "REQUIREMENTS_ERROR"}

\* error_types.get(validation_type, ErrorType.LOGIC_ERROR)
ValidationErrorType(validation_type) ==
    CASE validation_type = "syntax" -> "SYNTAX_ERROR"
      [] validation_type = "physics" -> "PHYSICS_ERROR"
      [] OTHER -> "LOGIC_ERROR"

NoExc == Exc("", FALSE, FALSE, <<>>, "")

PlainException(text) == Exc("Exception", FALSE, FALSE, <<text>>, "")

BlenderAIError(msg, recoverable) == Exc("BlenderAIError", TRUE, recoverable, msg, "")

PlanningError(msg) ==
    [Exc("PlanningError", TRUE, TRUE, msg, "")
        EXCEPT !.error_type = "REQUIREMENTS_ERROR",
               !.suggested_action =
                   <<"Rephrase the simulation request with more specific details">>]

ValidationError(msg, validation_type) ==
    [Exc("ValidationError", TRUE, TRUE, msg, validation_type)
        EXCEPT !.error_type = ValidationErrorType(validation_type),
               !.suggested_action =
                   <<"Review ", validation_type, " validation errors and regenerate">>]

SyntaxError(msg) ==
    [ValidationError(msg, "syntax")
        EXCEPT !.cls = "SyntaxError",
               !.suggested_action =
                   <<"Regenerate code with stricter syntax validation">>]

PhysicsError(msg) ==
    [ValidationError(msg, "physics")
        EXCEPT !.cls = "PhysicsError",
               !.suggested_action =
                   <<"Use realistic physics parameters from materials database">>]

ExecutionError(msg) ==
    [Exc("ExecutionError", TRUE, TRUE, msg, "")
        EXCEPT !.error_type = "API_ERROR",
               !.suggested_action =
                   <<"Check Blender installation and script compatibility">>]

QualityError(msg) ==
    [Exc("QualityError", TRUE, TRUE, msg, "")
        EXCEPT !.error_type = "LOGIC_ERROR",
               !.suggested_action = <<"Run refinement agent to improve quality">>]

ClaudeAPIError(msg) ==
    [Exc("ClaudeAPIError", TRUE, TRUE, msg, "")
        EXCEPT !.error_type = "API_ERROR",
               !.suggested_action =
                   <<"Check API key and rate limits, retry after delay">>]

ResourceError(msg, resource_type) ==
    [Exc("ResourceError", TRUE, FALSE, msg, "")
        EXCEPT !.error_type = "MEMORY_ERROR",
               !.suggested_action =
                   <<"Free up ", resource_type, " or reduce simulation complexity">>]

ConfigurationError(msg) ==
    [Exc("ConfigurationError", TRUE, FALSE, msg, "")
        EXCEPT !.error_type = "REQUIREMENTS_ERROR",
               !.suggested_action =
                   <<"Check config.yaml and environment variables">>]

TimeoutError(msg, timeout_seconds, operation) ==
    [Exc("TimeoutError", TRUE, TRUE, msg, "")
        EXCEPT !.timeout_seconds = timeout_seconds,
               !.error_type = "API_ERROR",
               !.suggested_action =
                   <<"Increase timeout or simplify ", operation>>]

\* ------------------------------------------------------------- BaseAgent
\* What leaves BaseAgent.run when execute raised e.
BaseAgentRaiseNoCause(name, e) ==
    IF e.taxonomy THEN e
    ELSE BlenderAIError(<<name, " execution failed">>, FALSE)

BaseAgentRaise(name, e) ==
    IF e.taxonomy THEN e
    ELSE BlenderAIError(<<name, " execution failed: ">> \o e.msg, FALSE)

\* The counters after one run() of agent name.
BaseAgentStats(st, name, raised) ==
    [st EXCEPT ![name] =
        IF raised THEN [@ EXCEPT !.error_count = @ + 1]
        ELSE [@ EXCEPT !.execution_count = @ + 1]]

\* The three counters of one agent after __init__ or reset_stats().
ZeroStats == [execution_count |-> 0, total_time |-> 0, error_count |-> 0]

\* BaseAgent.run on counters st: execute either returns after elapsed
\* seconds or raises
BaseAgentRun(st, raised, elapsed) ==
    IF raised
    THEN [st EXCEPT !.error_count = @ + 1]
    ELSE [st EXCEPT !.total_time = @ + elapsed, !.execution_count = @ + 1]

\* ------------------------------------------------------ PhysicsValidator
\* Material names and table keys are strings: sequences of characters.
MaxLen == 2

MaxKeyLen == 2

MaxKeys == 2

MaxObjects == 2

NameChars == {"a", "A", " ", "_"}

KeyChars == {"a", "_"}

Strings(chars, n) == UNION {[1..k -> chars] : k \in 0..n}

\* str.lower() on one character
Lower(ch) == IF ch = "A" THEN "a" ELSE ch

\* obj.material.lower().replace(" ", "_")
Normalise(name) ==
    [i \in DOMAIN name |->
        IF Lower(name[i]) = " " THEN "_" ELSE Lower(name[i])]

\* Python's  a in b  for two strings
IsSubstring(a, b) ==
    \E i \in 0..(Len(b) - Len(a)) : SubSeq(b, i + 1, i + Len(a)) = a

\* self.materials[key] and self.default_material
Profile(key) == [profile |-> key]

DefaultProfile == [profile |-> <<"default">>]

\* The materials table is a dict: its keys, distinct, in insertion order.
MaterialTables ==
    {t \in UNION {[1..k -> Strings(KeyChars, MaxKeyLen) \ {<<>>}] : k \in 0..MaxKeys} :
        \A i, j \in DOMAIN t : i # j => t[i] # t[j]}

RECURSIVE FuzzyMatch(_, _, _)
\* the for loop of _get_material_properties, from the i-th key on
FuzzyMatch(table, material_name, i) ==
    IF i > Len(table) THEN DefaultProfile
    ELSE IF IsSubstring(material_name, table[i])
            \/ IsSubstring(table[i], material_name)
    THEN Profile(table[i])
    ELSE FuzzyMatch(table, material_name, i + 1)

\* PhysicsValidatorAgent._get_material_properties
get_material_properties_fuzzy_only(table, material_name) ==
    FuzzyMatch(table, material_name, 1)

get_material_properties(table, material_name) ==
    IF \E i \in DOMAIN table : table[i] = material_name
    THEN Profile(material_name)
    ELSE FuzzyMatch(table, material_name, 1)

\* Plans are objects in memory.  A heap holds the plan objects, the
\* physics_settings objects and the simulation objects; a plan refers to
\* its settings and to its objects by their positions in the heap.
\* copy.deepcopy(plan): <<the heap afterwards, the new plan>>
deepcopy_shallow(h, p) ==
    <<[h EXCEPT !.plans = Append(@, h.plans[p])], Len(h.plans) + 1>>

deepcopy(h, p) ==
    LET plan == h.plans[p]
        copied == [plan EXCEPT
                     !.physics_settings = Len(h.settings) + 1,
                     !.objects = [i \in DOMAIN plan.objects |-> Len(h.objects) + i]]
    IN <<[plans |-> Append(h.plans, copied),
          settings |-> Append(h.settings, h.settings[plan.physics_settings]),
          objects |-> h.objects \o [i \in DOMAIN plan.objects |->
                                       h.objects[plan.objects[i]]]],
         Len(h.plans) + 1>>

\* the objects of plan p, as a set of heap positions
ObjectsOf(h, p) == {h.plans[p].objects[i] : i \in DOMAIN h.plans[p].objects}

FluidTypes == {"fluid_smoke", "fluid_fire", "fluid_liquid"}

\* the loop of lines 67-75 on plan e: every object gets its profile
EnrichObjects(h, e, table) ==
    [h EXCEPT !.objects =
        [i \in DOMAIN h.objects |->
            IF i \in ObjectsOf(h, e)
            THEN [h.objects[i] EXCEPT !.physics_properties =
                     get_material_properties(table, Normalise(h.objects[i].material))]
            ELSE h.objects[i]]]

\* _validate_physics_settings sets a missing fluid resolution to 128
DefaultResolution(h, e) ==
    LET plan == h.plans[e] IN
    IF plan.simulation_type \in FluidTypes
       /\ h.settings[plan.physics_settings].resolution_max = 0
    THEN [h EXCEPT !.settings[plan.physics_settings].resolution_max = 128]
    ELSE h

\* _adjust_for_simulation_type
adjust_for_simulation_type(h, e) ==
    LET plan == h.plans[e] IN
    IF plan.simulation_type = "rigid_body" /\ plan.duration_frames < 100
    THEN [h EXCEPT !.plans[e].duration_frames = 250]
    ELSE IF plan.simulation_type \in {"fluid_smoke", "fluid_fire"}
            /\ plan.duration_frames > 200
    THEN [h EXCEPT !.plans[e].duration_frames = 150]
    ELSE IF plan.simulation_type = "cloth"
            /\ h.settings[plan.physics_settings].quality_steps = 0
    THEN [h EXCEPT !.settings[plan.physics_settings].quality_steps = 5]
    ELSE h

\* PhysicsValidatorAgent.execute(plan p): the heap afterwards and the plan
\* returned, or the exception raised
PhysicsValidatorExecute(h, p, table) ==
    LET c == deepcopy(h, p)
        e == c[2]
        h2 == EnrichObjects(c[1], e, table)
        h3 == DefaultResolution(h2, e)
        plan == h3.plans[e]
    IN IF h2.settings[plan.physics_settings].gravity > 0
       THEN [heap |-> h2, raised |-> TRUE, value |-> 0,
             exc |-> PhysicsError(<<"Gravity should be negative (pulls downward)">>)]
       ELSE IF plan.simulation_type \in FluidTypes
               /\ h3.settings[plan.physics_settings].resolution_max < 32
       THEN [heap |-> h3, raised |-> TRUE, value |-> 0,
             exc |-> PhysicsError(<<"Fluid resolution too low (minimum 32)">>)]
       ELSE [heap |-> adjust_for_simulation_type(h3, e), raised |-> FALSE,
             value |-> e, exc |-> NoExc]

\* ------------------------------------------------------- SyntaxValidator
\* A generated artifact: the plan it was generated from, whether its text
\* parses, whether it uses a forbidden operation, and whether its text holds
\* an import of bpy.
Defects == {"none", "syntax", "security"}

BlenderCode(plan, defect, has_bpy) ==
    [plan |-> plan, defect |-> defect, has_bpy |-> has_bpy]

MissingBpy == "Missing required import: 'bpy'"

\* SyntaxValidatorAgent.execute: the errors list, in the order of the checks
SyntaxErrors(c) ==
    (IF c.defect = "syntax" THEN <<"Syntax error">> ELSE <<>>)
    \o (IF c.defect = "security" THEN <<"Security: Forbidden operation">> ELSE <<>>)
    \o (IF ~c.has_bpy THEN <<MissingBpy>> ELSE <<>>)

SyntaxValidatorExecute(c) ==
    [is_valid |-> Len(SyntaxErrors(c)) = 0, errors |-> SyntaxErrors(c)]

\* SyntaxValidatorAgent.validate_and_fix: <<fixed code, validation>>
validate_and_fix_returning_original(c) ==
    LET r == SyntaxValidatorExecute(c) IN
    IF r.is_valid THEN <<c, r>>
    ELSE LET fixed == IF \E i \in 1..Len(r.errors) : r.errors[i] = MissingBpy
                      THEN [c EXCEPT !.has_bpy = TRUE]
                      ELSE c
         IN <<c, SyntaxValidatorExecute(fixed)>>

validate_and_fix(c) ==
    LET r == SyntaxValidatorExecute(c) IN
    IF r.is_valid THEN <<c, r>>
    ELSE LET fixed == IF \E i \in 1..Len(r.errors) : r.errors[i] = MissingBpy
                      THEN [c EXCEPT !.has_bpy = TRUE]
                      ELSE c
         IN <<fixed, SyntaxValidatorExecute(fixed)>>

\* The text of an artifact: a sequence of lines, each a sequence of words
\* that single spaces separate.
CodeLines ==
    {<<"import", "bpy">>, <<"from", "bpy", "import", "x">>,
     <<"#", "import", "bpy">>, <<"x">>, <<"import", "x">>,
     <<"x", "#", "from", "bpy", "import", "x">>}

\* import_patterns for the required import bpy
ImportPatterns == {<<"import", "bpy">>, <<"from", "bpy", "import">>}

\* _check_imports: has_import
\* (a pattern holds no line break, so it lies in one line of the text)
check_imports(text) ==
    \E pattern \in ImportPatterns :
        \E i \in DOMAIN text : IsSubstring(pattern, text[i])

\* -------------------------------------------------------------- Executor
\* What the engine subprocess did: it exited with a return code, ran into
\* the timeout, or could not be started; and whether it saved the output
\* file.  The generated script saves as its last statement, so only a run
\* that exits with code 0 may have saved; the engine exits with code 0 also
\* when the script stopped early and saved nothing.
BlenderRuns ==
    [kind : {"exit"}, returncode : {0}, wrote : BOOLEAN]
    \cup [kind : {"exit"}, returncode : {1}, wrote : {FALSE}]
    \cup [kind : {"timeout", "notfound"}, returncode : {0}, wrote : {FALSE}]

NoFile == [state |-> "none", plan |-> NoPlan]

\* a file that was at output_path before the call
OldFile == [state |-> "old", plan |-> NoPlan]

\* the file at output_path after the engine ran the artifact c
FileAfter(file, c, b) ==
    IF b.wrote THEN [state |-> "new", plan |-> c.plan] ELSE file

\* BlenderConfig.timeout_seconds, the configured default
DefaultTimeout == 300

\* ExecutorAgent.__init__: self.timeout, for the constructor argument
\* timeout (0 stands for an argument that is None or 0)
ExecutorTimeout(timeout) == IF timeout = 0 THEN DefaultTimeout ELSE timeout

\* _run_blender: what became of the engine process
ProcessAfter(b) ==
    CASE b.kind = "timeout" -> "killed"
      [] b.kind = "notfound" -> "not started"
      [] OTHER -> "exited"

\* ExecutorAgent.execute of an executor whose self.timeout is T: the
\* ExecutionResult, or the exception raised
ExecutorExecuteWithinDefault(T, file, c, b) ==
    IF b.kind = "timeout"
    THEN [raised |-> TRUE,
          exc |-> TimeoutError(<<"Blender execution exceeded timeout">>,
                               DefaultTimeout, "blender_execution")]
    ELSE IF b.kind = "notfound"
    THEN [raised |-> TRUE,
          exc |-> ExecutionError(<<"Blender executable not found">>)]
    ELSE IF b.returncode # 0
    THEN [raised |-> TRUE,
          exc |-> ExecutionError(<<"Blender execution failed with exit code">>)]
    ELSE IF FileAfter(file, c, b).state = "none"
    THEN [raised |-> TRUE,
          exc |-> ExecutionError(<<"Blender completed but output file not found">>)]
    ELSE [raised |-> FALSE,
          value |-> [success |-> TRUE, blend_file_path |-> OutputPath]]

ExecutorExecuteWithin(T, file, c, b) ==
    IF b.kind = "timeout"
    THEN [raised |-> TRUE,
          exc |-> TimeoutError(<<"Blender execution exceeded timeout">>, T,
                               "blender_execution")]
    ELSE IF b.kind = "notfound"
    THEN [raised |-> TRUE,
          exc |-> ExecutionError(<<"Blender executable not found">>)]
    ELSE IF b.returncode # 0
    THEN [raised |-> TRUE,
          exc |-> ExecutionError(<<"Blender execution failed with exit code">>)]
    ELSE IF FileAfter(file, c, b).state = "none"
    THEN [raised |-> TRUE,
          exc |-> ExecutionError(<<"Blender completed but output file not found">>)]
    ELSE [raised |-> FALSE,
          value |-> [success |-> TRUE, blend_file_path |-> OutputPath]]

\* the executor the orchestrator constructs: ExecutorAgent()
ExecutorExecute(file, c, b) ==
    ExecutorExecuteWithin(ExecutorTimeout(0), file, c, b)

\* ------------------------------------------------------ QualityValidator
\* What the inspection of the produced file reports, reduced to the facts
\* _calculate_metrics reads: object count within tolerance, camera present,
\* a light present, physics setup present, physics bodies present, frame
\* range within tolerance.
InspectionData ==
    [count_ok : BOOLEAN, has_camera : BOOLEAN, has_light : BOOLEAN,
     has_physics : BOOLEAN, frames_ok : BOOLEAN]

\* The scenes the pipeline runs are inspected as: the two tolerance checks
\* pass, the three presence checks go either way.  (The tolerance checks
\* only move the score by 10 and by 2 hundredths.)
Scenes == {d \in InspectionData : d.count_ok /\ d.frames_ok}

\* weights 0.2, 0.2, 0.1, 0.4, 0.1 times the component, in hundredths
calculate_metrics(d) ==
    [object_count_correct |-> d.count_ok,
     has_physics_setup |-> d.has_physics,
     has_camera |-> d.has_camera,
     has_lighting |-> d.has_light,
     quality_score |->
         (IF d.count_ok THEN 20 ELSE 10)
         + (IF d.has_camera THEN 20 ELSE 0)
         + (IF d.has_light THEN 10 ELSE 5)
         + (IF d.has_physics THEN 40 ELSE 0)
         + (IF d.frames_ok THEN 10 ELSE 8),
     issues |->
         (IF ~d.count_ok THEN <<"Object count mismatch">> ELSE <<>>)
         \o (IF ~d.has_camera THEN <<"No camera found in scene">> ELSE <<>>)
         \o (IF ~d.has_light THEN <<"No lighting found in scene">> ELSE <<>>)
         \o (IF ~d.has_physics THEN <<"Physics not configured">> ELSE <<>>)
         \o (IF ~d.frames_ok THEN <<"Frame range mismatch">> ELSE <<>>)]

\* ------------------------------------------------------- RefinementAgent
Reason(text, n) == [text |-> text, n |-> n]

\* RefinementAgent.should_refine: <<should_refine, reason>>
should_refine_camera_first(m, threshold) ==
    IF m.quality_score >= threshold
    THEN <<FALSE, Reason("Quality already meets threshold", 0)>>
    ELSE IF ~m.has_camera
    THEN <<TRUE, Reason("Critical: Missing camera", 0)>>
    ELSE IF ~m.has_physics_setup
    THEN <<TRUE, Reason("Critical: Missing physics setup", 0)>>
    ELSE IF ~m.has_lighting
    THEN <<TRUE, Reason("Important: Missing lighting", 0)>>
    ELSE IF ~m.object_count_correct
    THEN <<TRUE, Reason("Important: Object count mismatch", 0)>>
    ELSE IF Len(m.issues) > 0
    THEN <<TRUE, Reason("issues found", Len(m.issues))>>
    ELSE <<TRUE, Reason("Quality below threshold", 0)>>

should_refine(m, threshold) ==
    IF m.quality_score >= threshold
    THEN <<FALSE, Reason("Quality already meets threshold", 0)>>
    ELSE IF ~m.has_physics_setup
    THEN <<TRUE, Reason("Critical: Missing physics setup", 0)>>
    ELSE IF ~m.has_camera
    THEN <<TRUE, Reason("Critical: Missing camera", 0)>>
    ELSE IF ~m.has_lighting
    THEN <<TRUE, Reason("Important: Missing lighting", 0)>>
    ELSE IF ~m.object_count_correct
    THEN <<TRUE, Reason("Important: Object count mismatch", 0)>>
    ELSE IF Len(m.issues) > 0
    THEN <<TRUE, Reason("issues found", Len(m.issues))>>
    ELSE <<TRUE, Reason("Quality below threshold", 0)>>

MaxChanges == 1

ChangeKinds == {"gravity", "resolution", "duration", "scale", "unknown"}

\* One suggested change, after the parameter name has been matched: the
\* kind of parameter, the number new_value stands for, and whether
\* float(new_value) or int(new_value) accepts the text at all.
Changes ==
    [kind : ChangeKinds, new_value : {-5, 16}, parses : {TRUE}]
    \cup {[kind |-> "gravity", new_value |-> 0, parses |-> FALSE]}

\* _apply_single_change on plan e; a conversion that raises leaves the
\* plan as it is (the caller logs the exception and goes on)
apply_single_change(h, e, change) ==
    LET plan == h.plans[e] IN
    IF ~change.parses THEN h
    ELSE CASE change.kind = "gravity" ->
                [h EXCEPT !.settings[plan.physics_settings].gravity = change.new_value]
           [] change.kind = "resolution" ->
                [h EXCEPT !.settings[plan.physics_settings].resolution_max = change.new_value]
           [] change.kind = "duration" ->
                [h EXCEPT !.plans[e].duration_frames = change.new_value]
           [] change.kind = "substep" ->
                [h EXCEPT !.settings[plan.physics_settings].substeps_per_frame =
                              change.new_value]
           [] change.kind = "solver" ->
                [h EXCEPT !.settings[plan.physics_settings].solver_iterations =
                              change.new_value]
           [] change.kind = "time_scale" ->
                [h EXCEPT !.settings[plan.physics_settings].time_scale =
                              change.new_value]
           [] change.kind = "scale" ->
                [h EXCEPT !.objects =
                    [i \in DOMAIN h.objects |->
                        IF i \in ObjectsOf(h, e)
                        THEN [h.objects[i] EXCEPT !.scale = change.new_value]
                        ELSE h.objects[i]]]
           [] OTHER -> h

RECURSIVE ApplyChanges(_, _, _)
\* the for loop of _apply_suggestions
ApplyChanges(h, e, changes) ==
    IF changes = <<>> THEN h
    ELSE ApplyChanges(apply_single_change(h, e, Head(changes)), e, Tail(changes))

\* _apply_suggestions: <<the heap afterwards, the refined plan>>
apply_suggestions(h, p, changes) ==
    LET c == deepcopy(h, p)
    IN <<ApplyChanges(c[1], c[2], changes), c[2]>>

\* A suggested change as the remote model words it: the parameter name, the
\* number the text of new_value stands for, and the form of that text:
\* "integer", "decimal" or "text".
ParameterNames ==
    {<<"g", "r", "a", "v", "i", "t", "y">>,
     <<"s", "u", "b", "s", "t", "e", "p", "s">>,
     <<"s", "o", "l", "v", "e", "r", "_", "i", "t", "e", "r", "a", "t", "i", "o", "n", "s">>,
     <<"r", "e", "s", "o", "l", "u", "t", "i", "o", "n">>,
     <<"d", "u", "r", "a", "t", "i", "o", "n">>,
     <<"t", "i", "m", "e", " ", "s", "c", "a", "l", "e">>,
     <<"o", "b", "j", "e", "c", "t", "_", "s", "c", "a", "l", "e">>,
     <<"f", "r", "a", "m", "e", "_", "r", "a", "t", "e">>,
     <<"c", "o", "l", "o", "u", "r">>}

\* the if/elif chain of _apply_single_change: the first branch whose words
\* occur in parameter.lower().replace(" ", "_")
MatchParameter(parameter) ==
    LET param_lower == Normalise(parameter) IN
    IF IsSubstring(<<"g", "r", "a", "v", "i", "t", "y">>, param_lower) THEN "gravity"
    ELSE IF IsSubstring(<<"s", "u", "b", "s", "t", "e", "p">>, param_lower) THEN "substep"
    ELSE IF IsSubstring(<<"s", "o", "l", "v", "e", "r">>, param_lower) \/ IsSubstring(<<"i", "t", "e", "r", "a", "t", "i", "o", "n">>, param_lower)
    THEN "solver"
    ELSE IF IsSubstring(<<"r", "e", "s", "o", "l", "u", "t", "i", "o", "n">>, param_lower) THEN "resolution"
    ELSE IF IsSubstring(<<"d", "u", "r", "a", "t", "i", "o", "n">>, param_lower) \/ IsSubstring(<<"f", "r", "a", "m", "e">>, param_lower)
    THEN "duration"
    ELSE IF IsSubstring(<<"t", "i", "m", "e">>, param_lower) /\ IsSubstring(<<"s", "c", "a", "l", "e">>, param_lower)
    THEN "time_scale"
    ELSE IF IsSubstring(<<"s", "c", "a", "l", "e">>, param_lower) THEN "scale"
    ELSE "unknown"

\* whether the conversion of the branch, float(new_value) or
\* int(new_value), accepts a text of this form
Converts(kind, form) ==
    IF kind \in {"gravity", "time_scale", "scale"}
    THEN form \in {"integer", "decimal"}
    ELSE IF kind \in {"substep", "solver", "resolution", "duration"}
    THEN form = "integer"
    ELSE TRUE

\* the branch taken for each of the parameter names
MatchedKind == [parameter \in ParameterNames |-> MatchParameter(parameter)]

MatchedChange(edit) ==
    [kind |-> MatchedKind[edit.parameter], new_value |-> edit.new_value,
     parses |-> Converts(MatchedKind[edit.parameter], edit.form)]

\* RefinementAgent.execute: answered tells whether the remote call for
\* suggestions came back
RefinementExecute(h, p, changes, answered) ==
    IF ~answered
    THEN [heap |-> h, raised |-> TRUE, value |-> 0,
          exc |-> ValidationError(<<"Refinement failed: ">>, "refinement")]
    ELSE [heap |-> apply_suggestions(h, p, changes)[1], raised |-> FALSE,
          value |-> apply_suggestions(h, p, changes)[2], exc |-> NoExc]

\* ---------------------------------------------------------- Orchestrator
GateThreshold == 80
GoodEnough == 90

\* SimulationOrchestrator.max_retries, the configured default
max_retries == 2

\* SimulationResult as constructed at the start of generate_simulation
NewResult ==
    [success |-> FALSE, plan |-> NoPlan, blend_file |-> "",
     quality_metrics |-> None, errors |-> <<>>, warnings |-> <<>>,
     refinement_count |-> 0]

Warning(kind, msg, n) == [kind |-> kind, msg |-> msg, n |-> n]

NotRejected == [iteration |-> 0, why |-> ""]

\* The statement order of the main run: where control goes after a stage
\* that succeeded.
StageAfterSkippingExecute(p) ==
    CASE p = "plan" -> "physics"
      [] p = "physics" -> "generate"
      [] p = "generate" -> "validate"
      [] p = "validate" -> "assess"
      [] p = "execute" -> "assess"
      [] p = "assess" -> "gate"

StageAfter(p) ==
    CASE p = "plan" -> "physics"
      [] p = "physics" -> "generate"
      [] p = "generate" -> "validate"
      [] p = "validate" -> "execute"
      [] p = "execute" -> "assess"
      [] p = "assess" -> "gate"

\* The except clauses of generate_simulation: is e caught by one of them?
CaughtWhenRecoverable(e) == (e.taxonomy /\ e.recoverable) \/ e.cls = "Exception"

Caught(e) == e.taxonomy \/ e.cls = "Exception"

\* The result after the except clause that catches e has run.
HandleErrorAsWarning(res, e, retry) ==
    [res EXCEPT !.warnings = Append(@, Warning("Failed: ", e.msg, 0))]

HandleError(res, e, retry) ==
    IF e.taxonomy
    THEN [res EXCEPT
            !.errors = Append(@, e.msg),
            !.warnings = IF retry /\ e.recoverable
                         THEN Append(@, Warning("Retried due to: ", e.msg, 0))
                         ELSE @]
    ELSE [res EXCEPT !.errors = Append(@, <<"Unexpected error: ">> \o e.msg)]

\* The try statement of generate_simulation: the exception e reaches it,
\* caused by the exception orig that a stage raised.
Fail(orig, e) ==
    /\ failure' = orig
    /\ IF Caught(e)
       THEN /\ result' = HandleError(result, e, enable_auto_retry)
            /\ pc' = "returned"
       ELSE /\ result' = result
            /\ pc' = "raised"

\* agent.run() raised: execute raised e inside BaseAgent.run of agent name
StageFail(name, e) == Fail(e, BaseAgentRaise(name, e))

\* The progress value of each checkpoint, in hundredths: lines 189, 199,
\* 209, 218, 239, 256, 275-279 and 352.
ProgressAtRefineEarly(p) ==
    CASE p = "plan" -> 10
      [] p = "physics" -> 25
      [] p = "generate" -> 40
      [] p = "validate" -> 55
      [] p = "execute" -> 70
      [] p = "assess" -> 90
      [] p = "refine" -> 85
      [] p = "finish" -> 100

ProgressAt(p) ==
    CASE p = "plan" -> 10
      [] p = "physics" -> 25
      [] p = "generate" -> 40
      [] p = "validate" -> 55
      [] p = "execute" -> 70
      [] p = "assess" -> 90
      [] p = "refine" -> 95
      [] p = "finish" -> 100

\* what a call of the caller's progress callback does
CallbackOutcomes == {"returns", "raises"}

CallbackFailed == PlainException("progress callback failed")

\* _report_progress: the exception that leaves it, NoExc when none does
report_progress_uncaught(cb, outcome) ==
    IF cb /\ outcome = "raises" THEN CallbackFailed ELSE NoExc

report_progress(cb, outcome) == NoExc

\* _report_progress calls the callback, if one is given, with value
ReportProgress(value, outcome) ==
    /\ progress' = IF callback THEN Append(progress, value) ELSE progress
    /\ cb_raised' = (cb_raised \/ (callback /\ outcome = "raises"))

\* an exception e left _report_progress before a stage was invoked
CallbackAbort(e) ==
    /\ Fail(e, e)
    /\ UNCHANGED <<calls, enable_auto_retry, enable_refinement,
                   max_refinement_iterations, enriched_plan, code,
                   quality_metrics, iteration, refined_plan, refined_code,
                   outfile, stats, gate, calls_log, executed, main_score,
                   accepted, rejected_at, baseline, iter_exc, assessed,
                   gateVars, unitVars, callback>>

OrchInit ==
    /\ pc = "idle"
    /\ calls = 0
    /\ enable_refinement = FALSE
    /\ max_refinement_iterations = 0
    /\ result = NewResult
    /\ enriched_plan = NoPlan
    /\ code = BlenderCode(NoPlan, "none", TRUE)
    /\ quality_metrics = None
    /\ iteration = 0
    /\ refined_plan = NoPlan
    /\ refined_code = BlenderCode(NoPlan, "none", TRUE)
    /\ outfile = NoFile
    /\ stats = [a \in Agents |-> [execution_count |-> 0, error_count |-> 0]]
    /\ gate = <<>>
    /\ calls_log = <<>>
    /\ failure = NoExc
    /\ executed = <<>>
    /\ main_score = -1
    /\ accepted = <<>>
    /\ rejected_at = NotRejected
    /\ baseline = None
    /\ iter_exc = NoExc
    /\ assessed = NoFile
    /\ callback = FALSE
    /\ progress = <<>>
    /\ cb_raised = FALSE

Init ==
    /\ OrchInit
    /\ enable_auto_retry \in BOOLEAN
    /\ gm = None /\ gt = 0 /\ gout = <<>>
    /\ uin = None /\ uout = None

\* generate_simulation is called: arguments, result object, fresh locals.
\* The output path names no file yet, or a file that exists already.
Call ==
    /\ pc \in {"idle", "returned"}
    /\ calls < MaxCalls
    /\ calls' = calls + 1
    /\ enable_refinement' \in BOOLEAN
    /\ max_refinement_iterations' \in 0..MaxIter
    /\ result' = NewResult
    /\ outfile' \in {NoFile, OldFile}
    /\ enriched_plan' = NoPlan
    /\ code' = BlenderCode(NoPlan, "none", TRUE)
    /\ quality_metrics' = None
    /\ iteration' = 0
    /\ refined_plan' = NoPlan
    /\ refined_code' = BlenderCode(NoPlan, "none", TRUE)
    /\ gate' = <<>>
    /\ calls_log' = <<>>
    /\ failure' = NoExc
    /\ executed' = <<>>
    /\ main_score' = -1
    /\ accepted' = <<>>
    /\ rejected_at' = NotRejected
    /\ baseline' = None
    /\ iter_exc' = NoExc
    /\ assessed' = NoFile
    /\ callback' \in BOOLEAN
    /\ progress' = <<>>
    /\ cb_raised' = FALSE
    /\ pc' = "plan"
    /\ UNCHANGED <<enable_auto_retry, stats, gateVars, unitVars>>

\* STEP 1: plan = self.planner.run(user_prompt)
PlanStage ==
    /\ pc = "plan"
    /\ \E o \in CallbackOutcomes :
         /\ ReportProgress(ProgressAt(pc), o)
         /\ IF report_progress(callback, o) # NoExc
            THEN CallbackAbort(report_progress(callback, o))
            ELSE /\ calls_log' = Append(calls_log, "Plan")
                 /\ \E ok \in BOOLEAN :
                      IF ok
                      THEN /\ stats' = BaseAgentStats(stats, "PlannerAgent", FALSE)
                           /\ result' = [result EXCEPT !.plan = Plan("planned", 0)]
                           /\ pc' = StageAfter(pc)
                           /\ UNCHANGED failure
                      ELSE /\ stats' = BaseAgentStats(stats, "PlannerAgent", TRUE)
                           /\ StageFail("PlannerAgent",
                                     PlanningError(<<"Failed to parse simulation request: ">>))
                 /\ UNCHANGED <<calls, enable_auto_retry, enable_refinement,
                                max_refinement_iterations, enriched_plan, code,
                                quality_metrics, iteration, refined_plan, refined_code,
                                outfile, gate, executed, main_score, accepted, rejected_at,
                                baseline, iter_exc, assessed, gateVars, unitVars, callback>>

\* what PhysicsValidatorAgent.execute can raise
PhysicsFailures ==
    {PhysicsError(<<"Gravity should be negative (pulls downward)">>),
     PlainException("material properties rejected")}

\* STEP 2: enriched_plan = self.physics_validator.run(plan)
EnrichPhysics ==
    /\ pc = "physics"
    /\ \E o \in CallbackOutcomes :
         /\ ReportProgress(ProgressAt(pc), o)
         /\ IF report_progress(callback, o) # NoExc
            THEN CallbackAbort(report_progress(callback, o))
            ELSE /\ calls_log' = Append(calls_log, "EnrichPhysics")
                 /\ \/ /\ stats' = BaseAgentStats(stats, "PhysicsValidatorAgent", FALSE)
                       /\ enriched_plan' = Plan("enriched", 0)
                       /\ result' = [result EXCEPT !.plan = Plan("enriched", 0)]
                       /\ pc' = StageAfter(pc)
                       /\ UNCHANGED failure
                    \/ \E e \in PhysicsFailures :
                       /\ stats' = BaseAgentStats(stats, "PhysicsValidatorAgent", TRUE)
                       /\ StageFail("PhysicsValidatorAgent", e)
                       /\ UNCHANGED enriched_plan
                 /\ UNCHANGED <<calls, enable_auto_retry, enable_refinement,
                                max_refinement_iterations, code,
                                quality_metrics, iteration, refined_plan, refined_code,
                                outfile, gate, executed, main_score, accepted, rejected_at,
                                baseline, iter_exc, assessed, gateVars, unitVars, callback>>

\* what CodeGeneratorAgent.execute can return for a plan
GeneratedCodes(plan) ==
    {BlenderCode(plan, d, b) : d \in Defects, b \in BOOLEAN}

CodeGenError == ValidationError(<<"Code generation failed: ">>, "code_generation")

\* STEP 3: code = self.code_generator.run(enriched_plan, output_path)
GenerateArtifact ==
    /\ pc = "generate"
    /\ \E o \in CallbackOutcomes :
         /\ ReportProgress(ProgressAt(pc), o)
         /\ IF report_progress(callback, o) # NoExc
            THEN CallbackAbort(report_progress(callback, o))
            ELSE /\ calls_log' = Append(calls_log, "GenerateArtifact")
                 /\ \/ /\ \E c \in GeneratedCodes(enriched_plan) : code' = c
                       /\ stats' = BaseAgentStats(stats, "CodeGeneratorAgent", FALSE)
                       /\ pc' = StageAfter(pc)
                       /\ UNCHANGED <<failure, result>>
                    \/ /\ stats' = BaseAgentStats(stats, "CodeGeneratorAgent", TRUE)
                       /\ StageFail("CodeGeneratorAgent", CodeGenError)
                       /\ UNCHANGED code
                 /\ UNCHANGED <<calls, enable_auto_retry, enable_refinement,
                                max_refinement_iterations, enriched_plan,
                                quality_metrics, iteration, refined_plan, refined_code,
                                outfile, gate, executed, main_score, accepted, rejected_at,
                                baseline, iter_exc, assessed, gateVars, unitVars, callback>>

\* the ValidationError the orchestrator raises for a still invalid artifact
SyntaxFailure(validation) ==
    ValidationError(<<"Code validation failed: ">> \o validation.errors, "syntax")

\* STEP 4: validation = self.syntax_validator.run(code), on an invalid
\* artifact validate_and_fix(code), on a still invalid one ValidationError
ValidateSyntax ==
    /\ pc = "validate"
    /\ \E o \in CallbackOutcomes :
         /\ ReportProgress(ProgressAt(pc), o)
         /\ IF report_progress(callback, o) # NoExc
            THEN CallbackAbort(report_progress(callback, o))
            ELSE /\ calls_log' = Append(calls_log, "ValidateSyntax")
                 /\ stats' = BaseAgentStats(stats, "SyntaxValidatorAgent", FALSE)
                 /\ LET validation == SyntaxValidatorExecute(code)
                        fix == validate_and_fix(code)
                    IN IF validation.is_valid
                       THEN /\ pc' = StageAfter(pc)
                            /\ UNCHANGED <<code, failure, result>>
                       ELSE IF fix[2].is_valid
                       THEN /\ code' = fix[1]
                            /\ pc' = StageAfter(pc)
                            /\ UNCHANGED <<failure, result>>
                       ELSE /\ code' = fix[1]
                            /\ Fail(SyntaxFailure(fix[2]), SyntaxFailure(fix[2]))
                 /\ UNCHANGED <<calls, enable_auto_retry, enable_refinement,
                                max_refinement_iterations, enriched_plan,
                                quality_metrics, iteration, refined_plan, refined_code,
                                outfile, gate, executed, main_score, accepted, rejected_at,
                                baseline, iter_exc, assessed, gateVars, unitVars, callback>>

ExecutionFailed == ExecutionError(<<"Blender execution failed">>)

\* STEP 5: execution_result = self.executor.run(code, output_path)
Execute ==
    /\ pc = "execute"
    /\ \E o \in CallbackOutcomes :
         /\ ReportProgress(ProgressAt(pc), o)
         /\ IF report_progress(callback, o) # NoExc
            THEN CallbackAbort(report_progress(callback, o))
            ELSE /\ calls_log' = Append(calls_log, "Execute")
                 /\ executed' = Append(executed, code)
                 /\ \E b \in BlenderRuns :
                      LET r == ExecutorExecute(outfile, code, b) IN
                      /\ outfile' = FileAfter(outfile, code, b)
                      /\ stats' = BaseAgentStats(stats, "ExecutorAgent", r.raised)
                      /\ IF r.raised
                         THEN StageFail("ExecutorAgent", r.exc)
                         ELSE IF ~r.value.success
                         THEN Fail(ExecutionFailed, ExecutionFailed)
                         ELSE /\ result' = [result EXCEPT !.blend_file = r.value.blend_file_path]
                              /\ pc' = StageAfter(pc)
                              /\ UNCHANGED failure
                 /\ UNCHANGED <<calls, enable_auto_retry, enable_refinement,
                                max_refinement_iterations, enriched_plan, code,
                                quality_metrics, iteration, refined_plan, refined_code,
                                gate, main_score, accepted, rejected_at,
                                baseline, iter_exc, assessed, gateVars, unitVars, callback>>

\* what QualityValidatorAgent.execute can raise instead of returning metrics
QualityFailures ==
    {QualityError(<<"Failed to get inspection results from Blender">>),
     PlainException("inspection process could not be started")}

\* STEP 6: quality_metrics = self.quality_validator.run(execution_result, enriched_plan)
AssessQuality ==
    /\ pc = "assess"
    /\ \E o \in CallbackOutcomes :
         /\ ReportProgress(ProgressAt(pc), o)
         /\ IF report_progress(callback, o) # NoExc
            THEN CallbackAbort(report_progress(callback, o))
            ELSE /\ calls_log' = Append(calls_log, "AssessQuality")
                 /\ \/ \E d \in Scenes :
                         /\ quality_metrics' = calculate_metrics(d)
                         /\ result' = [result EXCEPT !.quality_metrics = calculate_metrics(d)]
                         /\ main_score' = calculate_metrics(d).quality_score
                         /\ assessed' = outfile
                         /\ stats' = BaseAgentStats(stats, "QualityValidatorAgent", FALSE)
                         /\ pc' = StageAfter(pc)
                         /\ UNCHANGED failure
                    \/ \E e \in QualityFailures :
                         /\ stats' = BaseAgentStats(stats, "QualityValidatorAgent", TRUE)
                         /\ StageFail("QualityValidatorAgent", e)
                         /\ UNCHANGED <<quality_metrics, main_score, assessed>>
                 /\ UNCHANGED <<calls, enable_auto_retry, enable_refinement,
                                max_refinement_iterations, enriched_plan, code,
                                iteration, refined_plan, refined_code, outfile,
                                gate, executed, accepted, rejected_at,
                                baseline, iter_exc, gateVars, unitVars, callback>>

\* range(1, max_refinement_iterations + 1): is i one of its values?
InRangeOneMore(i, n) == 1 <= i /\ i <= n + 1

InRange(i, n) == 1 <= i /\ i <= n

\* Lines 265-274: the refinement gate and the entry into the for loop.
Gate ==
    /\ pc = "gate"
    /\ IF enable_refinement /\ quality_metrics.quality_score < GoodEnough
       THEN /\ gate' = should_refine(quality_metrics, GateThreshold)
            /\ IF should_refine(quality_metrics, GateThreshold)[1]
                  /\ InRange(1, max_refinement_iterations)
               THEN iteration' = 1 /\ pc' = "refine"
               ELSE iteration' = iteration /\ pc' = "finish"
       ELSE /\ gate' = gate
            /\ iteration' = iteration
            /\ pc' = "finish"
    /\ UNCHANGED <<calls, enable_auto_retry, enable_refinement,
                   max_refinement_iterations, result, enriched_plan, code,
                   quality_metrics, refined_plan, refined_code, outfile,
                   stats, calls_log, failure, executed, main_score, accepted,
                   rejected_at, baseline, iter_exc, assessed, gateVars, unitVars, callback,
                   progress, cb_raised>>

\* The except clause inside the refinement loop: is e caught by it?
IterCaughtValidationOnly(e) == e.cls = "ValidationError"

IterCaught(e) == e.taxonomy \/ e.cls = "Exception"

\* A stage of a refinement iteration raised: lines 333-336, and the outer
\* try statement for what the inner one lets through.
IterFail(name, orig) ==
    /\ iter_exc' = orig
    /\ IF IterCaught(BaseAgentRaise(name, orig))
       THEN /\ result' = [result EXCEPT !.warnings =
                   Append(@, Warning("Refinement attempt failed", <<>>, iteration))]
            /\ pc' = "finish"
            /\ UNCHANGED failure
       ELSE Fail(orig, BaseAgentRaise(name, orig))

\* <<pc, iteration>> after an iteration that was accepted: lines 323-325 and
\* the step of the for loop
OnAcceptIgnoringGoodEnough(score, i, n) ==
    IF ~InRange(i + 1, n)
    THEN <<"finish", i>>
    ELSE <<"refine", i + 1>>

OnAccept(score, i, n) ==
    IF score >= GoodEnough \/ ~InRange(i + 1, n)
    THEN <<"finish", i>>
    ELSE <<"refine", i + 1>>

\* <<pc, iteration>> after an iteration that is given up: the break of
\* lines 298, 304 and 331
OnRejectContinue(i, n) ==
    IF InRange(i + 1, n) THEN <<"refine", i + 1>> ELSE <<"finish", i>>

OnReject(i, n) == <<"finish", i>>

Break(why) ==
    /\ rejected_at' = [iteration |-> iteration, why |-> why]
    /\ pc' = OnReject(iteration, max_refinement_iterations)[1]
    /\ iteration' = OnReject(iteration, max_refinement_iterations)[2]

\* what the result reports, and the file it names, before an iteration
Snapshot ==
    [blend_file |-> result.blend_file,
     quality_metrics |-> result.quality_metrics,
     refinement_count |-> result.refinement_count]

RefineError == ValidationError(<<"Refinement failed: ">>, "refinement")

\* refined_plan = self.refinement.run(enriched_plan, quality_metrics, iteration)
Refine ==
    /\ pc = "refine"
    /\ \E o \in CallbackOutcomes :
         /\ ReportProgress(ProgressAt(pc), o)
         /\ IF report_progress(callback, o) # NoExc
            THEN CallbackAbort(report_progress(callback, o))
            ELSE /\ calls_log' = Append(calls_log, "Refine")
                 /\ baseline' = Snapshot
                 /\ \/ /\ refined_plan' = Plan("refined", iteration)
                       /\ stats' = BaseAgentStats(stats, "RefinementAgent", FALSE)
                       /\ pc' = "regenerate"
                       /\ UNCHANGED <<result, failure, iter_exc>>
                    \/ /\ stats' = BaseAgentStats(stats, "RefinementAgent", TRUE)
                       /\ IterFail("RefinementAgent", RefineError)
                       /\ UNCHANGED refined_plan
                 /\ UNCHANGED <<calls, enable_auto_retry, enable_refinement,
                                max_refinement_iterations, enriched_plan, code,
                                quality_metrics, iteration, refined_code, outfile,
                                gate, executed, main_score, accepted, rejected_at,
                                assessed, gateVars, unitVars, callback>>

\* refined_code = self.code_generator.run(refined_plan, output_path)
Regenerate ==
    /\ pc = "regenerate"
    /\ calls_log' = Append(calls_log, "Regenerate")
    /\ \/ /\ \E c \in GeneratedCodes(refined_plan) : refined_code' = c
          /\ stats' = BaseAgentStats(stats, "CodeGeneratorAgent", FALSE)
          /\ pc' = "revalidate"
          /\ UNCHANGED <<result, failure, iter_exc>>
       \/ /\ stats' = BaseAgentStats(stats, "CodeGeneratorAgent", TRUE)
          /\ IterFail("CodeGeneratorAgent", CodeGenError)
          /\ UNCHANGED refined_code
    /\ UNCHANGED <<calls, enable_auto_retry, enable_refinement,
                   max_refinement_iterations, enriched_plan, code,
                   quality_metrics, iteration, refined_plan, outfile,
                   gate, executed, main_score, accepted, rejected_at,
                   baseline, assessed, gateVars, unitVars, callback,
                   progress, cb_raised>>

\* refined_validation = self.syntax_validator.run(refined_code); an invalid
\* artifact ends the loop
Revalidate ==
    /\ pc = "revalidate"
    /\ calls_log' = Append(calls_log, "Revalidate")
    /\ stats' = BaseAgentStats(stats, "SyntaxValidatorAgent", FALSE)
    /\ IF SyntaxValidatorExecute(refined_code).is_valid
       THEN pc' = "reexecute" /\ UNCHANGED <<rejected_at, iteration>>
       ELSE Break("validation")
    /\ UNCHANGED <<calls, enable_auto_retry, enable_refinement,
                   max_refinement_iterations, result, enriched_plan, code,
                   quality_metrics, refined_plan, refined_code,
                   outfile, gate, failure, executed, main_score, accepted,
                   baseline, iter_exc, assessed, gateVars, unitVars, callback,
                   progress, cb_raised>>

\* refined_execution = self.executor.run(refined_code, output_path)
Reexecute ==
    /\ pc = "reexecute"
    /\ calls_log' = Append(calls_log, "Reexecute")
    /\ executed' = Append(executed, refined_code)
    /\ \E b \in BlenderRuns :
         LET r == ExecutorExecute(outfile, refined_code, b) IN
         /\ outfile' = FileAfter(outfile, refined_code, b)
         /\ stats' = BaseAgentStats(stats, "ExecutorAgent", r.raised)
         /\ IF r.raised
            THEN IterFail("ExecutorAgent", r.exc)
                 /\ UNCHANGED <<rejected_at, iteration>>
            ELSE IF ~r.value.success
            THEN Break("execution") /\ UNCHANGED <<result, failure, iter_exc>>
            ELSE /\ pc' = "reassess"
                 /\ UNCHANGED <<result, failure, iter_exc, rejected_at, iteration>>
    /\ UNCHANGED <<calls, enable_auto_retry, enable_refinement,
                   max_refinement_iterations, enriched_plan, code,
                   quality_metrics, refined_plan, refined_code,
                   gate, main_score, accepted, baseline, assessed, gateVars, unitVars, callback,
                   progress, cb_raised>>

\* line 309: is the refined assessment accepted over the baseline?
ImprovedOrEqual(refined_quality, current) ==
    refined_quality.quality_score >= current.quality_score

Improved(refined_quality, current) ==
    refined_quality.quality_score > current.quality_score

\* refined_quality = self.quality_validator.run(refined_execution, refined_plan)
\* and the decision of lines 309-331, with the step of the for loop
Reassess ==
    /\ pc = "reassess"
    /\ calls_log' = Append(calls_log, "Reassess")
    /\ \/ \E d \in Scenes :
            LET refined_quality == calculate_metrics(d)
                next == OnAccept(refined_quality.quality_score, iteration,
                                 max_refinement_iterations)
            IN
            /\ stats' = BaseAgentStats(stats, "QualityValidatorAgent", FALSE)
            /\ IF Improved(refined_quality, quality_metrics)
               THEN /\ result' = [result EXCEPT
                          !.blend_file = OutputPath,
                          !.quality_metrics = refined_quality,
                          !.refinement_count = iteration]
                    /\ enriched_plan' = refined_plan
                    /\ quality_metrics' = refined_quality
                    /\ accepted' = Append(accepted,
                          [iteration |-> iteration,
                           previous |-> quality_metrics.quality_score,
                           score |-> refined_quality.quality_score])
                    /\ assessed' = outfile
                    /\ pc' = next[1]
                    /\ iteration' = next[2]
                    /\ UNCHANGED rejected_at
               ELSE /\ Break("score")
                    /\ UNCHANGED <<result, enriched_plan, quality_metrics,
                                   accepted, assessed>>
            /\ UNCHANGED <<failure, iter_exc>>
       \/ \E e \in QualityFailures :
            /\ stats' = BaseAgentStats(stats, "QualityValidatorAgent", TRUE)
            /\ IterFail("QualityValidatorAgent", e)
            /\ UNCHANGED <<enriched_plan, quality_metrics, accepted, assessed,
                           iteration, rejected_at>>
    /\ UNCHANGED <<calls, enable_auto_retry, enable_refinement,
                   max_refinement_iterations, code, refined_plan, refined_code,
                   outfile, gate, executed, main_score, baseline, gateVars, unitVars, callback,
                   progress, cb_raised>>

\* lines 350-370: result.success = True; the last checkpoint; return result
Finish ==
    /\ pc = "finish"
    /\ \E o \in CallbackOutcomes :
         /\ ReportProgress(ProgressAt(pc), o)
         /\ IF report_progress(callback, o) # NoExc
            THEN /\ result' = HandleError([result EXCEPT !.success = TRUE],
                                          report_progress(callback, o),
                                          enable_auto_retry)
                 /\ failure' = report_progress(callback, o)
            ELSE /\ result' = [result EXCEPT !.success = TRUE]
                 /\ UNCHANGED failure
    /\ pc' = "returned"
    /\ UNCHANGED <<calls, enable_auto_retry, enable_refinement,
                   max_refinement_iterations, enriched_plan, code,
                   quality_metrics, iteration, refined_plan, refined_code,
                   outfile, stats, gate, calls_log, executed,
                   main_score, accepted, rejected_at, baseline, iter_exc,
                   assessed, gateVars, unitVars, callback>>

Next ==
    \/ Call \/ PlanStage \/ EnrichPhysics \/ GenerateArtifact
    \/ ValidateSyntax \/ Execute \/ AssessQuality \/ Gate
    \/ Refine \/ Regenerate \/ Revalidate \/ Reexecute \/ Reassess
    \/ Finish

Spec == Init /\ [][Next]_vars

\* ------------------------------------------- the quality gate on its own
MaxIssues == 2

GateScores == {0, 50, 79, 80, 81, 90, 100}

GateThresholds == {50, 80, 90}

IssueLists == UNION {[1..n -> {"issue"}] : n \in 0..MaxIssues}

QualityMetricsValues ==
    [object_count_correct : BOOLEAN, has_physics_setup : BOOLEAN,
     has_camera : BOOLEAN, has_lighting : BOOLEAN,
     quality_score : GateScores, issues : IssueLists]

GateInit ==
    /\ OrchInit
    /\ enable_auto_retry = TRUE
    /\ gm \in QualityMetricsValues
    /\ gt \in GateThresholds
    /\ gout = <<>>
    /\ uin = None /\ uout = None

\* should_refine(quality_metrics, threshold) is called
CallShouldRefine ==
    /\ gout = <<>>
    /\ gout' = should_refine(gm, gt)
    /\ UNCHANGED <<gm, gt, orchVars, unitVars>>

GateNext == CallShouldRefine

GateSpec == GateInit /\ [][GateNext]_vars

\* ---------------------------------------------- the executor on its own
MaxRuns == 2

\* the timeout argument of ExecutorAgent(timeout=...)
TimeoutArguments == {0, 30, 600}

ExecutorInit ==
    /\ OrchInit
    /\ enable_auto_retry = TRUE
    /\ gm = None /\ gt = 0 /\ gout = <<>>
    /\ uin \in [timeout : TimeoutArguments, file : {NoFile, OldFile}]
    /\ uout = None

\* executor.run(code, output_path): BaseAgent.run around execute
ExecutorRun ==
    /\ stats["ExecutorAgent"].execution_count
         + stats["ExecutorAgent"].error_count < MaxRuns
    /\ \E b \in BlenderRuns, k \in 0..MaxIter :
         LET c == BlenderCode(Plan("refined", k), "none", TRUE)
             r == ExecutorExecuteWithin(ExecutorTimeout(uin.timeout),
                                        uin.file, c, b)
         IN /\ uout' = [run |-> b,
                        process |-> ProcessAfter(b),
                        before |-> stats["ExecutorAgent"],
                        returned |-> ~r.raised,
                        raised |-> IF r.raised
                                   THEN BaseAgentRaise("ExecutorAgent", r.exc)
                                   ELSE NoExc]
            /\ uin' = [uin EXCEPT !.file = FileAfter(uin.file, c, b)]
            /\ stats' = BaseAgentStats(stats, "ExecutorAgent", r.raised)
    /\ UNCHANGED <<pc, calls, enable_auto_retry, enable_refinement,
                   max_refinement_iterations, result, enriched_plan, code,
                   quality_metrics, iteration, refined_plan, refined_code,
                   outfile, gate, calls_log, failure, executed, main_score,
                   accepted, rejected_at, baseline, iter_exc, assessed,
                   callback, progress, cb_raised, gateVars>>

ExecutorNext == ExecutorRun

ExecutorSpec == ExecutorInit /\ [][ExecutorNext]_vars

\* ------------------------------------- the plans in memory on their own
\* the plan the planner returns: one plan object with its settings and
\* objects
PlannedHeaps ==
    {[plans |-> <<[simulation_type |-> t, duration_frames |-> d,
                   physics_settings |-> 1, objects |-> [i \in 1..n |-> i]]>>,
      settings |-> <<[gravity |-> g, resolution_max |-> r, quality_steps |-> 0,
                      substeps_per_frame |-> 10, solver_iterations |-> 10,
                      time_scale |-> 1]>>,
      objects |-> [i \in 1..n |->
                     [material |-> <<"A">>, physics_properties |-> None,
                      scale |-> 1]]] :
        t \in {"rigid_body", "fluid_smoke", "fluid_liquid", "cloth"},
        d \in {50, 250}, g \in {-10, 10}, r \in {0, 16, 64},
        n \in 1..MaxObjects}

\* everything plan p holds, with its settings and objects in place
DeepValue(h, p) ==
    [simulation_type |-> h.plans[p].simulation_type,
     duration_frames |-> h.plans[p].duration_frames,
     physics_settings |-> h.settings[h.plans[p].physics_settings],
     objects |-> [i \in DOMAIN h.plans[p].objects |->
                     h.objects[h.plans[p].objects[i]]]]

PlanInit ==
    /\ OrchInit
    /\ enable_auto_retry = TRUE
    /\ gm = None /\ gt = 0 /\ gout = <<>>
    /\ \E h \in PlannedHeaps :
          /\ uin = [heap |-> h, materials |-> <<<<"a">>>>, chain |-> <<1>>,
                    looping |-> TRUE, raised |-> NoExc]
          /\ uout = <<DeepValue(h, 1)>>

\* enriched_plan = self.physics_validator.run(plan)
PhysicsRun ==
    /\ Len(uin.chain) = 1
    /\ uin.raised = NoExc
    /\ LET r == PhysicsValidatorExecute(uin.heap, uin.chain[1], uin.materials)
       IN IF r.raised
          THEN /\ uin' = [uin EXCEPT !.heap = r.heap,
                             !.raised = BaseAgentRaise("PhysicsValidatorAgent", r.exc)]
               /\ uout' = uout
          ELSE /\ uin' = [uin EXCEPT !.heap = r.heap,
                             !.chain = Append(@, r.value)]
               /\ uout' = Append(uout, DeepValue(r.heap, r.value))
    /\ UNCHANGED <<orchVars, gateVars>>

\* refined_plan = self.refinement.run(enriched_plan, quality_metrics,
\* iteration); when the iteration is accepted the refined plan becomes
\* the baseline of the next one (enriched_plan = refined_plan), otherwise
\* the loop ends
RefineRun ==
    /\ Len(uin.chain) >= 2
    /\ uin.looping
    /\ Len(uin.chain) < 2 + MaxIter
    /\ uin.raised = NoExc
    /\ \E answered \in BOOLEAN, improved \in BOOLEAN,
          changes \in UNION {[1..k -> Changes] : k \in 0..MaxChanges} :
         LET r == RefinementExecute(uin.heap, uin.chain[Len(uin.chain)],
                                    changes, answered)
         IN IF r.raised
            THEN /\ uin' = [uin EXCEPT !.heap = r.heap,
                               !.raised = BaseAgentRaise("RefinementAgent", r.exc)]
                 /\ uout' = uout
            ELSE /\ uin' = [uin EXCEPT !.heap = r.heap,
                               !.chain = Append(@, r.value),
                               !.looping = improved]
                 /\ uout' = Append(uout, DeepValue(r.heap, r.value))
    /\ UNCHANGED <<orchVars, gateVars>>

PlanNext == PhysicsRun \/ RefineRun

PlanSpec == PlanInit /\ [][PlanNext]_vars

\* ------------------------------------- the import check on its own
ImportInit ==
    /\ OrchInit
    /\ enable_auto_retry = TRUE
    /\ gm = None /\ gt = 0 /\ gout = <<>>
    /\ uin \in [text : UNION {[1..n -> CodeLines] : n \in 0..MaxLines},
                 defect : Defects]
    /\ uout = None

\* SyntaxValidatorAgent.run(code) on the artifact with this text
ValidateText ==
    /\ uout = None
    /\ uout' = SyntaxValidatorExecute(
                   BlenderCode(NoPlan, uin.defect, check_imports(uin.text)))
    /\ UNCHANGED <<orchVars, gateVars, uin>>

ImportNext == ValidateText

ImportSpec == ImportInit /\ [][ImportNext]_vars

\* ---------------------------------- the material lookup on its own
MaterialInit ==
    /\ OrchInit
    /\ enable_auto_retry = TRUE
    /\ gm = None /\ gt = 0 /\ gout = <<>>
    /\ uin \in [materials : MaterialTables,
                 objects : UNION {[1..k -> Strings(NameChars, MaxLen)] :
                                     k \in 1..MaxObjects}]
    /\ uout = None

\* the enrichment loop of PhysicsValidatorAgent.execute, lines 67-75: every
\* object of the plan gets the profile looked up for its material
EnrichMaterials ==
    /\ uout = None
    /\ uout' = [profiles |->
                  [i \in DOMAIN uin.objects |->
                      get_material_properties(uin.materials,
                                              Normalise(uin.objects[i]))]]
    /\ UNCHANGED <<orchVars, gateVars, uin>>

MaterialNext == EnrichMaterials

MaterialSpec == MaterialInit /\ [][MaterialNext]_vars

\* ------------------------------------ the time bookkeeping on its own
\* Times are whole seconds when measured and milliseconds when reported:
\* get_stats rounds the average to three decimals.
MaxElapsed == 2

\* the agents whose times generate_simulation records, in stage order
MainAgents == {"PlannerAgent", "PhysicsValidatorAgent", "CodeGeneratorAgent",
               "SyntaxValidatorAgent", "ExecutorAgent", "QualityValidatorAgent"}

\* the agents estimate_generation_time runs
EstimateAgents == {"PlannerAgent", "PhysicsValidatorAgent", "CodeGeneratorAgent"}

\* BaseAgent.run, successful, taking elapsed seconds: total_time and
\* execution_count afterwards
BaseAgentTimed(st, elapsed) ==
    [total_time |-> st.total_time + elapsed,
     execution_count |-> st.execution_count + 1]

\* get_stats()["average_time"], in milliseconds
average_time(st) ==
    IF st.execution_count > 0
    THEN (2000 * st.total_time + st.execution_count) \div (2 * st.execution_count)
    ELSE 0

RECURSIVE SumOver(_, _)
\* sum(values) of a mapping f over the keys S
SumOver(f, S) ==
    IF S = {} THEN 0
    ELSE LET a == CHOOSE x \in S : TRUE IN f[a] + SumOver(f, S \ {a})

TimeInit ==
    /\ OrchInit
    /\ enable_auto_retry = TRUE
    /\ gm = None /\ gt = 0 /\ gout = <<>>
    /\ uin = [ops |-> 0,
              timed |-> [a \in MainAgents |->
                            [total_time |-> 0, execution_count |-> 0]]]
    /\ uout = None

\* generate_simulation without refinement, every stage succeeding and
\* taking el[a] seconds: lines 196-263 record each agent's average_time
\* right after its run, line 355 sums them
TimedCall ==
    /\ uin.ops < MaxCalls
    /\ \E el \in [MainAgents -> 1..MaxElapsed] :
         LET after == [a \in MainAgents |-> BaseAgentTimed(uin.timed[a], el[a])]
             agent_times == [a \in MainAgents |-> average_time(after[a])]
         IN /\ uin' = [ops |-> uin.ops + 1, timed |-> after]
            /\ uout' = [elapsed |-> el,
                        agent_times |-> agent_times,
                        total_time_seconds |-> SumOver(agent_times, MainAgents)]
    /\ UNCHANGED <<orchVars, gateVars>>

\* estimate_generation_time: planner, physics validator and code generator
\* run once each
EstimateTime ==
    /\ uin.ops < MaxCalls
    /\ \E el \in [EstimateAgents -> 1..MaxElapsed] :
         uin' = [ops |-> uin.ops + 1,
                 timed |-> [a \in MainAgents |->
                               IF a \in EstimateAgents
                               THEN BaseAgentTimed(uin.timed[a], el[a])
                               ELSE uin.timed[a]]]
    /\ UNCHANGED <<orchVars, gateVars, uout>>

TimeNext == TimedCall \/ EstimateTime

TimeSpec == TimeInit /\ [][TimeNext]_vars

\* ------------------------------------------- one agent on its own
\* what an execute() may raise: every class of the taxonomy, and an
\* exception from outside it
Raisable ==
    {PlanningError(<<"m">>), SyntaxError(<<"m">>), PhysicsError(<<"m">>),
     ExecutionError(<<"m">>), QualityError(<<"m">>), ClaudeAPIError(<<"m">>),
     ResourceError(<<"m">>, "memory"), ConfigurationError(<<"m">>),
     TimeoutError(<<"m">>, DefaultTimeout, "blender_execution"),
     PlainException("m")}
    \cup {ValidationError(<<"m">>, t) :
              t \in {"syntax", "physics", "quality", "refinement"}}

\* get_stats(), times in milliseconds
get_stats(st) ==
    [executions |-> st.execution_count,
     total_time |-> 1000 * st.total_time,
     average_time |-> average_time(st),
     errors |-> st.error_count]

AgentInit ==
    /\ OrchInit
    /\ enable_auto_retry = TRUE
    /\ gm = None /\ gt = 0 /\ gout = <<>>
    /\ uin = [st |-> ZeroStats, ops |-> 0, runs |-> 0, failed |-> 0,
              recorded |-> 0]
    /\ uout = [op |-> "none", raised |-> FALSE, thrown |-> NoExc,
               left |-> NoExc, before |-> ZeroStats]

\* agent.run(...) returning after elapsed seconds
AgentRunReturns ==
    /\ uin.ops < MaxOps
    /\ \E elapsed \in 1..MaxElapsed :
          /\ uin' = [uin EXCEPT !.st = BaseAgentRun(@, FALSE, elapsed),
                                !.ops = @ + 1, !.runs = @ + 1,
                                !.recorded = @ + elapsed]
          /\ uout' = [op |-> "run", raised |-> FALSE, thrown |-> NoExc,
                      left |-> NoExc, before |-> uin.st]
    /\ UNCHANGED <<orchVars, gateVars>>

\* agent.run(...) whose execute raises e
AgentRunRaises ==
    /\ uin.ops < MaxOps
    /\ \E e \in Raisable :
          /\ uin' = [uin EXCEPT !.st = BaseAgentRun(@, TRUE, 0),
                                !.ops = @ + 1, !.runs = @ + 1,
                                !.failed = @ + 1]
          /\ uout' = [op |-> "run", raised |-> TRUE, thrown |-> e,
                      left |-> BaseAgentRaise("Agent", e), before |-> uin.st]
    /\ UNCHANGED <<orchVars, gateVars>>

\* agent.reset_stats()
AgentReset ==
    /\ uin.ops < MaxOps
    /\ uin' = [uin EXCEPT !.st = ZeroStats, !.ops = @ + 1,
                          !.runs = 0, !.failed = 0, !.recorded = 0]
    /\ uout' = [op |-> "reset", raised |-> FALSE, thrown |-> NoExc,
                left |-> NoExc, before |-> uin.st]
    /\ UNCHANGED <<orchVars, gateVars>>

AgentNext == AgentRunReturns \/ AgentRunRaises \/ AgentReset

AgentSpec == AgentInit /\ [][AgentNext]_vars

\* ------------------------------------ the edit dispatcher on its own
DispatchInit ==
    /\ OrchInit
    /\ enable_auto_retry = TRUE
    /\ gm = None /\ gt = 0 /\ gout = <<>>
    /\ \E h \in PlannedHeaps :
          /\ h.plans[1].simulation_type = "rigid_body"
          /\ h.plans[1].duration_frames = 250
          /\ h.settings[1].gravity = -10
          /\ h.settings[1].resolution_max = 64
          /\ uin \in [heap : {h},
                       edits : UNION {[1..k ->
                                          [parameter : ParameterNames,
                                           new_value : {16},
                                           form : {"integer", "decimal", "text"}]] :
                                      k \in 0..MaxEdits}]
    /\ uout = None

\* RefinementAgent.run(plan 1, ...) when the remote model suggests uin.edits
RefineEdits ==
    /\ uout = None
    /\ \E answered \in BOOLEAN :
         LET changes == [i \in DOMAIN uin.edits |-> MatchedChange(uin.edits[i])]
             r == RefinementExecute(uin.heap, 1, changes, answered)
         IN uout' = [answered |-> answered, raised |-> r.raised,
                     original |-> DeepValue(r.heap, 1),
                     refined |-> IF r.raised THEN None
                                 ELSE DeepValue(r.heap, r.value)]
    /\ UNCHANGED <<orchVars, gateVars, uin>>

DispatchNext == RefineEdits

DispatchSpec == DispatchInit /\ [][DispatchNext]_vars

\* ------------------------------------------ the remote client on its own
RECURSIVE RetryLoop(_, _, _, _)
\* the for loop of call_with_retry from iteration attempt on, and the raise
\* after it (raise None is a TypeError); r holds the attempts made, the
\* sleeps taken and last_error
RetryLoop(outcomes, n, attempt, r) ==
    IF attempt >= n
    THEN [returned |-> FALSE, attempts |-> r.attempts, sleeps |-> r.sleeps,
          raised |-> IF r.last_error = NoExc
                     THEN Exc("TypeError", FALSE, FALSE,
                              <<"exceptions must derive from BaseException">>, "")
                     ELSE r.last_error]
    ELSE IF outcomes[attempt + 1] = "answers"
    THEN [returned |-> TRUE, attempts |-> r.attempts + 1, sleeps |-> r.sleeps,
          raised |-> NoExc]
    ELSE RetryLoop(outcomes, n, attempt + 1,
                   [attempts |-> r.attempts + 1,
                    sleeps |-> IF attempt < n - 1
                               THEN Append(r.sleeps, 2 ^ attempt)
                               ELSE r.sleeps,
                    last_error |-> ClaudeAPIError(<<"Failed: ", outcomes[attempt + 1]>>)])

\* ClaudeClient.call_with_retry(prompt, tool, max_retries = n)
call_with_retry(outcomes, n) ==
    RetryLoop(outcomes, n, 0,
              [attempts |-> 0, sleeps |-> <<>>, last_error |-> NoExc])

\* each attempt, complete() or call_tool(), answers or raises a
\* ClaudeAPIError for one of two causes
RetryInit ==
    /\ OrchInit
    /\ enable_auto_retry = TRUE
    /\ gm = None /\ gt = 0 /\ gout = <<>>
    /\ \E n \in 0..MaxAttempts :
          uin \in [max_retries : {n}, tool : BOOLEAN,
                   outcomes : [1..n -> {"answers", "rate limit", "overloaded"}]]
    /\ uout = None

CallWithRetry ==
    /\ uout = None
    /\ uout' = call_with_retry(uin.outcomes, uin.max_retries)
    /\ UNCHANGED <<orchVars, gateVars, uin>>

RetryNext == CallWithRetry

RetrySpec == RetryInit /\ [][RetryNext]_vars

\* ---------------------------------------------- the web front-end
\* job ids are fresh uuids; the k-th job created has id k
JobIds == 1..MaxJobs

\* what orchestrator.generate_simulation returns to run_generation, and the
\* last progress value its callback was given (in hundredths)
GenerationOutcomes ==
    [success : {TRUE}, errors : {<<>>}, reached : {100}]
    \cup [success : {FALSE}, errors : {<<"error">>}, reached : {10, 70}]

\* the body of run_generation on active_jobs: the entry afterwards, the
\* statuses it assigned, and the exception that left it.  The body holds
\* no await, so nothing else runs in between.
run_generation(active_jobs, job_id, outcome) ==
    IF active_jobs[job_id] = None
    THEN [job |-> None, assigned |-> <<>>,
          raised |-> Exc("KeyError", FALSE, FALSE, <<"job_id">>, "")]
    ELSE [job |-> IF outcome.success
                  THEN [status |-> "completed", progress |-> 100,
                        result |-> [blend_file |-> OutputPath],
                        errors |-> <<>>]
                  ELSE [status |-> "failed", progress |-> outcome.reached,
                        result |-> None, errors |-> outcome.errors],
          assigned |-> <<"running",
                         IF outcome.success THEN "completed" ELSE "failed">>,
          raised |-> NoExc]

WebInit ==
    /\ OrchInit
    /\ enable_auto_retry = TRUE
    /\ gm = None /\ gt = 0 /\ gout = <<>>
    /\ uin = [active_jobs |-> [j \in JobIds |-> None],
              created |-> 0,
              task |-> [j \in JobIds |-> "none"],
              stream |-> [j \in JobIds |->
                            [state |-> "none", last_progress |-> -1]]]
    /\ uout = [assigned |-> [j \in JobIds |-> <<>>],
               raised |-> [j \in JobIds |-> NoExc],
               response |-> 0]

\* POST /generate: the job is stored and run_generation is scheduled to
\* run once the response has been sent
Generate ==
    /\ uin.created < MaxJobs
    /\ LET job_id == uin.created + 1
       IN /\ uin' = [uin EXCEPT !.active_jobs[job_id] =
                                    [status |-> "queued", progress |-> 0,
                                     result |-> None, errors |-> <<>>],
                                !.created = job_id,
                                !.task[job_id] = "scheduled"]
          /\ uout' = [uout EXCEPT !.assigned[job_id] = <<"queued">>,
                                  !.response = 200]
    /\ UNCHANGED <<orchVars, gateVars>>

\* the background task run_generation(job_id, ...)
RunGeneration ==
    /\ \E job_id \in JobIds, outcome \in GenerationOutcomes :
          /\ uin.task[job_id] = "scheduled"
          /\ LET r == run_generation(uin.active_jobs, job_id, outcome)
             IN /\ uin' = [uin EXCEPT !.active_jobs[job_id] = r.job,
                                      !.task[job_id] =
                                          IF r.raised = NoExc THEN "ended"
                                          ELSE "raised"]
                /\ uout' = [uout EXCEPT !.assigned[job_id] = @ \o r.assigned,
                                        !.raised[job_id] = r.raised]
    /\ UNCHANGED <<orchVars, gateVars>>

\* GET /status/{job_id}
GetStatus ==
    /\ \E job_id \in JobIds :
          uout' = [uout EXCEPT !.response =
                      IF uin.active_jobs[job_id] = None THEN 404 ELSE 200]
    /\ UNCHANGED <<orchVars, gateVars, uin>>

\* GET /stream/{job_id}: the request itself
StreamOpen ==
    /\ \E job_id \in JobIds :
          /\ uin.stream[job_id].state = "none"
          /\ IF uin.active_jobs[job_id] = None
             THEN /\ uout' = [uout EXCEPT !.response = 404]
                  /\ uin' = uin
             ELSE /\ uout' = [uout EXCEPT !.response = 200]
                  /\ uin' = [uin EXCEPT !.stream[job_id].state = "open"]
    /\ UNCHANGED <<orchVars, gateVars>>

\* one turn of the while loop of event_generator
StreamPoll ==
    /\ \E job_id \in JobIds :
          /\ uin.stream[job_id].state = "open"
          /\ LET job == uin.active_jobs[job_id]
             IN IF job = None
                THEN uin' = [uin EXCEPT !.stream[job_id].state = "done"]
                ELSE uin' = [uin EXCEPT
                               !.stream[job_id].last_progress = job.progress,
                               !.stream[job_id].state =
                                   IF job.status \in {"completed", "failed"}
                                   THEN "done" ELSE "open"]
    /\ UNCHANGED <<orchVars, gateVars, uout>>

\* DELETE /jobs/{job_id}
DeleteJob ==
    /\ \E job_id \in JobIds :
          IF uin.active_jobs[job_id] = None
          THEN /\ uout' = [uout EXCEPT !.response = 404]
               /\ uin' = uin
          ELSE /\ uout' = [uout EXCEPT !.response = 200]
               /\ uin' = [uin EXCEPT !.active_jobs[job_id] = None]
    /\ UNCHANGED <<orchVars, gateVars>>

WebNext ==
    Generate \/ RunGeneration \/ GetStatus \/ StreamOpen \/ StreamPoll
        \/ DeleteJob

WebSpec == WebInit /\ [][WebNext]_vars

\* --------------------------------------- the assessment on its own
AssessInit ==
    /\ OrchInit
    /\ enable_auto_retry = TRUE
    /\ gm = None /\ gt = 0 /\ gout = <<>>
    /\ uin \in [inspection_data : InspectionData, threshold : GateThresholds]
    /\ uout = None

\* quality_validator._calculate_metrics(inspection_data, plan), then
\* refinement.should_refine(metrics, threshold)
AssessScene ==
    /\ uout = None
    /\ LET metrics == calculate_metrics(uin.inspection_data)
       IN uout' = [metrics |-> metrics,
                   gate |-> should_refine(metrics, uin.threshold)]
    /\ UNCHANGED <<orchVars, gateVars, uin>>

AssessNext == AssessScene

AssessSpec == AssessInit /\ [][AssessNext]_vars

\* ------------------------------------------------------------ properties
Count(seq, x) == Cardinality({i \in DOMAIN seq : seq[i] = x})

Last(seq) == seq[Len(seq)]

\* m contains the text pieces of inner, in order and adjacent
Contains(m, inner) ==
    \E i \in 1..(Len(m) + 1) :
        /\ i + Len(inner) - 1 <= Len(m)
        /\ SubSeq(m, i, i + Len(inner) - 1) = inner

MainOrder == <<"Plan", "EnrichPhysics", "GenerateArtifact", "ValidateSyntax",
               "Execute", "AssessQuality">>

RefinementStages == {"Refine", "Regenerate", "Revalidate", "Reexecute", "Reassess"}

C3_FixedOrder ==
    LET n == Len(calls_log)
        m == IF n < 6 THEN n ELSE 6
    IN /\ SubSeq(calls_log, 1, m) = SubSeq(MainOrder, 1, m)
       /\ \A i \in 7..n : calls_log[i] \in RefinementStages
       /\ (n >= 2 => result.plan # NoPlan)
       /\ (n >= 3 => enriched_plan # NoPlan)
       /\ (n >= 4 => code.plan = Plan("enriched", 0))
       /\ (n >= 5 => SyntaxValidatorExecute(code).is_valid)
       /\ (n >= 6 => result.blend_file = OutputPath
                     /\ Len(executed) >= 1 /\ executed[1] = code)
       /\ (n >= 7 => main_score >= 0)
       /\ (result.success => n >= 6 /\ main_score >= 0)

C3_Witness ==
    /\ result.success
    /\ Len(calls_log) > 6

\* C4: an iteration changes the reported score, the reported refinement
\* count or the baseline only when its score is strictly greater than the
\* current best; the accepted scores are strictly increasing from the
\* main-run score.
C4_StrictImprovement ==
    /\ [](\A i \in DOMAIN accepted :
            /\ accepted[i].score > accepted[i].previous
            /\ accepted[i].previous =
                 IF i = 1 THEN main_score ELSE accepted[i - 1].score)
    /\ [][(pc = "reassess"
           /\ (result'.quality_metrics # result.quality_metrics
               \/ result'.refinement_count # result.refinement_count
               \/ quality_metrics' # quality_metrics
               \/ enriched_plan' # enriched_plan))
          => /\ quality_metrics'.quality_score > quality_metrics.quality_score
             /\ result'.quality_metrics = quality_metrics'
             /\ enriched_plan' = refined_plan]_vars

C4_Witness ==
    /\ Len(accepted) = 2
    /\ pc = "returned"

\* C5: a call starts at most max_refinement_iterations iterations, makes at
\* most that many plus one quality assessments, and terminates: every step
\* of a call lowers a rank that is never negative.
Rank ==
    LET n == max_refinement_iterations
        loop(k) == 5 * (n - iteration) + k + 1
    IN CASE pc = "plan" -> 5 * n + 8
         [] pc = "physics" -> 5 * n + 7
         [] pc = "generate" -> 5 * n + 6
         [] pc = "validate" -> 5 * n + 5
         [] pc = "execute" -> 5 * n + 4
         [] pc = "assess" -> 5 * n + 3
         [] pc = "gate" -> 5 * n + 2
         [] pc = "refine" -> loop(5)
         [] pc = "regenerate" -> loop(4)
         [] pc = "revalidate" -> loop(3)
         [] pc = "reexecute" -> loop(2)
         [] pc = "reassess" -> loop(1)
         [] pc = "finish" -> 1
         [] OTHER -> 0

C5_BoundedLoop ==
    /\ [](/\ Count(calls_log, "Refine") <= max_refinement_iterations
          /\ Count(calls_log, "AssessQuality") + Count(calls_log, "Reassess")
               <= max_refinement_iterations + 1
          /\ iteration <= max_refinement_iterations
          /\ Rank >= 0)
    /\ [][calls' = calls => Rank' < Rank]_vars

C5_Witness ==
    /\ pc = "returned"
    /\ max_refinement_iterations = MaxIter
    /\ Count(calls_log, "Refine") = MaxIter
    /\ Count(calls_log, "AssessQuality") + Count(calls_log, "Reassess") = MaxIter + 1

\* C6: once an iteration's score is not strictly higher than the best, no
\* later iteration starts; the returned refinement_count is the number of
\* accepted iterations of the call.
C6_RejectEndsLoop ==
    /\ (rejected_at.why = "score" =>
            /\ pc \in {"finish", "returned"}
            /\ Count(calls_log, "Refine") = rejected_at.iteration
            /\ Last(calls_log) = "Reassess")
    /\ (pc = "returned" => result.refinement_count = Len(accepted))

C6_Witness ==
    /\ pc = "returned"
    /\ rejected_at = [iteration |-> 1, why |-> "score"]
    /\ max_refinement_iterations >= 2
    /\ result.refinement_count = 0

\* C7: in a successful result, the file at the reported location is the
\* artifact whose assessment the result reports (the last accepted
\* iteration's, or the main run's): an iteration that was not accepted left
\* nothing behind.
C7_DiscardedArtifact ==
    (pc = "returned" /\ result.success) => outfile = assessed

\* C8: an iteration starts only with refinement enabled, a main-run score
\* below 0.8 and a best score below 0.9; a gate asked about a main-run score
\* of 0.8 or more answers no.
C8_GateThresholds ==
    /\ (Count(calls_log, "Refine") > 0 =>
            enable_refinement /\ main_score < GateThreshold)
    /\ (pc = "refine" => quality_metrics.quality_score < GoodEnough)
    /\ ((gate # <<>> /\ main_score >= GateThreshold) => ~gate[1])
    /\ ((pc \in {"finish", "returned"} /\ main_score >= GateThreshold)
            => Count(calls_log, "Refine") = 0)

C8_Witness ==
    /\ pc = "returned"
    /\ max_refinement_iterations >= 2
    /\ Len(accepted) = 1
    /\ accepted[1].score >= GoodEnough
    /\ Count(calls_log, "Refine") = 1
    /\ rejected_at = NotRejected
    /\ iter_exc = NoExc

\* C9: an exception raised by a stage of a refinement iteration ends the
\* loop and becomes a warning: the call still succeeds with no errors, and
\* the location, assessment and refinement_count the result reports are
\* those from before the iteration.
C9_BestEffortRefinement ==
    iter_exc # NoExc =>
        /\ pc \in {"finish", "returned"}
        /\ (pc = "returned" => result.success)
        /\ result.errors = <<>>
        /\ failure = NoExc
        /\ \E w \in DOMAIN result.warnings :
               result.warnings[w] = Warning("Refinement attempt failed", <<>>, iteration)
        /\ Count(calls_log, "Refine") = iteration
        /\ Snapshot = baseline
        /\ result.refinement_count = Len(accepted)

C9_Witness ==
    /\ pc = "returned"
    /\ iter_exc.cls = "Exception"
    /\ Len(accepted) = 1
    /\ result.success

\* C10: should_refine answers by the first rule that matches, in the order
\* score >= threshold, physics setup absent, camera absent, lighting absent,
\* object count mismatch, issues present, otherwise below threshold.
C10_GateOrder ==
    gout # <<>> =>
        LET below == gm.quality_score < gt
            text == gout[2].text
        IN /\ gout[1] = below
           /\ (text = "Quality already meets threshold") = ~below
           /\ (text = "Critical: Missing physics setup")
                = (below /\ ~gm.has_physics_setup)
           /\ (text = "Critical: Missing camera")
                = (below /\ gm.has_physics_setup /\ ~gm.has_camera)
           /\ (text = "Important: Missing lighting")
                = (below /\ gm.has_physics_setup /\ gm.has_camera
                   /\ ~gm.has_lighting)
           /\ (text = "Important: Object count mismatch")
                = (below /\ gm.has_physics_setup /\ gm.has_camera
                   /\ gm.has_lighting /\ ~gm.object_count_correct)
           /\ (text = "issues found")
                = (below /\ gm.has_physics_setup /\ gm.has_camera
                   /\ gm.has_lighting /\ gm.object_count_correct
                   /\ Len(gm.issues) > 0)
           /\ (text = "issues found" => gout[2].n = Len(gm.issues))
           /\ (text = "Quality below threshold")
                = (below /\ gm.has_physics_setup /\ gm.has_camera
                   /\ gm.has_lighting /\ gm.object_count_correct
                   /\ Len(gm.issues) = 0)

C10_Witness ==
    /\ gout # <<>>
    /\ gm.quality_score < gt
    /\ ~gm.has_physics_setup
    /\ ~gm.has_camera
    /\ Len(gm.issues) = MaxIssues
    /\ gout[2].text = "Critical: Missing physics setup"

NonDecreasing(seq) == \A i \in 1..(Len(seq) - 1) : seq[i] <= seq[i + 1]

\* C11: the values handed to the progress callback during one call never
\* decrease, with or without refinement iterations; 1.0 is reported only as
\* the last value of a call, and a returned call has reported it exactly
\* when its result has success=true.
C11_ProgressMonotone ==
    /\ NonDecreasing(progress)
    /\ (~callback => progress = <<>>)
    /\ \A i \in DOMAIN progress :
           progress[i] = 100 => (i = Len(progress) /\ result.success)
    /\ ((callback /\ pc = "returned") =>
            /\ Len(progress) > 0
            /\ (Last(progress) = 100) = result.success)

C11_Witness ==
    /\ callback
    /\ pc = "returned"
    /\ result.success
    /\ Count(calls_log, "Refine") = 2
    /\ Count(progress, 95) = 2
    /\ Last(progress) = 100

\* C12: a progress callback that raises never ends or changes the call: no
\* exception of the callback reaches the try statement or the result, and
\* the step in which the callback raises still invokes its stage (or, at
\* the last checkpoint, returns the successful result).
C12_CallbackIsolated ==
    /\ [](cb_raised =>
            /\ pc # "raised"
            /\ failure # CallbackFailed
            /\ \A i \in DOMAIN result.errors :
                   ~Contains(result.errors[i], CallbackFailed.msg))
    /\ [][(~cb_raised /\ cb_raised') =>
             \/ /\ Len(calls_log') = Len(calls_log) + 1
                /\ result'.errors = result.errors \/ failure' # NoExc
             \/ /\ pc = "finish"
                /\ pc' = "returned"
                /\ result' = [result EXCEPT !.success = TRUE]]_vars

C12_Witness ==
    /\ pc = "returned"
    /\ cb_raised
    /\ result.success
    /\ Last(progress) = 100

\* C13: the validation step hands a valid artifact on unchanged; an invalid
\* one gets one repair pass that only adds the missing import: if the
\* repaired artifact is valid the run goes on to execute that artifact,
\* otherwise the call ends with a ValidationError of type syntax and the
\* executor is never invoked.  What the executor gets is the artifact the
\* validation step left.
C13_OneSelfRepair ==
    /\ [][pc = "validate" =>
            IF SyntaxValidatorExecute(code).is_valid
            THEN /\ code' = code
                 /\ pc' = "execute"
                 /\ failure' = NoExc
            ELSE /\ code'.plan = code.plan
                 /\ code'.defect = code.defect
                 /\ code'.has_bpy
                 /\ IF SyntaxValidatorExecute(code').is_valid
                    THEN /\ pc' = "execute"
                         /\ failure' = NoExc
                    ELSE /\ pc' = "returned"
                         /\ ~result'.success
                         /\ failure'.cls = "ValidationError"
                         /\ failure'.validation_type = "syntax"]_vars
    /\ [][pc = "execute" => (code' = code /\ executed' = <<code>>)]_vars
    /\ [](failure.validation_type = "syntax" =>
             /\ Last(calls_log) = "ValidateSyntax"
             /\ Count(calls_log, "Execute") = 0
             /\ executed = <<>>
             /\ ~SyntaxValidatorExecute(code).is_valid)

C13_Witness ==
    /\ pc = "returned"
    /\ failure.validation_type = "syntax"
    /\ code.defect = "security"
    /\ code.has_bpy
    /\ ~result.success

\* C14: when the engine process runs into the timeout T of the executor,
\* the process is killed, run() raises a TimeoutError whose timeout_seconds
\* is T and returns nothing, and the executor's error counter goes up by
\* exactly one while its execution counter stays.
C14_TimeoutKills ==
    (uout # None /\ uout.run.kind = "timeout") =>
        /\ uout.process = "killed"
        /\ ~uout.returned
        /\ uout.raised.cls = "TimeoutError"
        /\ uout.raised.timeout_seconds = ExecutorTimeout(uin.timeout)
        /\ uout.raised.timeout_seconds > 0
        /\ stats["ExecutorAgent"].error_count = uout.before.error_count + 1
        /\ stats["ExecutorAgent"].execution_count = uout.before.execution_count

C14_Witness ==
    /\ uout # None
    /\ uout.run.kind = "timeout"
    /\ uin.timeout = 30
    /\ uout.raised.timeout_seconds = 30
    /\ stats["ExecutorAgent"].error_count = 2

\* C15: the total_time_seconds of a successful call is the sum of the
\* elapsed times of the stages of that call, also on an orchestrator whose
\* agents have run before.
C15_TotalTime ==
    uout # None =>
        uout.total_time_seconds = 1000 * SumOver(uout.elapsed, MainAgents)

\* C16: the plan stored in a successful result is the final plan used: the
\* enriched plan when no iteration was accepted, otherwise the refined plan
\* of the last accepted iteration (the baseline plan the call ended with).
C16_FinalPlan ==
    (pc = "returned" /\ result.success) =>
        /\ result.plan = enriched_plan
        /\ result.plan =
              IF Len(accepted) = 0 THEN Plan("enriched", 0)
              ELSE Plan("refined", Last(accepted).iteration)

\* C18: a returned result that carries the warning "Retried due to: ..."
\* comes from a call in which the failed stage was invoked again after its
\* failure, at most max_retries times.
C18_AutoRetry ==
    (pc = "returned"
     /\ \E w \in DOMAIN result.warnings :
            result.warnings[w].kind = "Retried due to: ") =>
        /\ Count(calls_log, Last(calls_log)) >= 2
        /\ Count(calls_log, Last(calls_log)) <= 1 + max_retries

\* C20: after the enrichment every component has exactly one profile: the
\* one of the table key equal to its normalised material name if there is
\* such a key, otherwise the one of the first key that contains the name or
\* is contained in it, otherwise the default profile.
C20_MaterialProfile ==
    uout # None =>
        /\ DOMAIN uout.profiles = DOMAIN uin.objects
        /\ \A i \in DOMAIN uin.objects :
             LET n == Normalise(uin.objects[i])
                 t == uin.materials
                 hits == {k \in DOMAIN t :
                             IsSubstring(n, t[k]) \/ IsSubstring(t[k], n)}
             IN uout.profiles[i] =
                   IF \E k \in DOMAIN t : t[k] = n THEN Profile(n)
                   ELSE IF hits # {}
                   THEN Profile(t[CHOOSE k \in hits : \A h \in hits : k <= h])
                   ELSE DefaultProfile

C20_Witness ==
    /\ uout # None
    /\ Len(uin.objects) = 2
    /\ Len(uin.materials) = 2
    /\ uin.objects[1] = <<"A", " ">>
    /\ uin.materials[2] = <<"a", "_">>
    /\ IsSubstring(uin.materials[1], <<"a", "_">>)
    /\ uout.profiles[1] = Profile(<<"a", "_">>)
    /\ uout.profiles[2] = DefaultProfile

\* C17: neither the physics validator nor a refinement step changes the plan
\* it is given, whether it returns or fails: every plan of the call still
\* holds what it held when it was produced, and no two plans share a
\* settings object or a simulation object.
C17_PlansNotMutated ==
    /\ Len(uout) = Len(uin.chain)
    /\ \A i \in DOMAIN uin.chain :
           DeepValue(uin.heap, uin.chain[i]) = uout[i]
    /\ \A i, j \in DOMAIN uin.chain :
           i # j =>
              /\ uin.chain[i] # uin.chain[j]
              /\ uin.heap.plans[uin.chain[i]].physics_settings
                   # uin.heap.plans[uin.chain[j]].physics_settings
              /\ ObjectsOf(uin.heap, uin.chain[i])
                   \cap ObjectsOf(uin.heap, uin.chain[j]) = {}

C17_Witness ==
    /\ Len(uin.chain) = 4
    /\ uout[1].objects[1].physics_properties = None
    /\ uout[2].objects[1].physics_properties = Profile(<<"a">>)
    /\ uout[3].objects[1].scale = 16
    /\ uout[4].physics_settings.gravity = -5
    /\ uout[2].physics_settings.gravity = -10
    /\ uout[2].objects[1].scale = 1

\* C19: every plan handed to the artifact generator, the enriched plan and
\* every refined plan, satisfies the rules of the physics validation:
\* gravity is not positive and a fluid simulation has a maximum resolution
\* of at least 32.
C19_PhysicsRules ==
    \A i \in 2..Len(uout) :
        /\ uout[i].physics_settings.gravity <= 0
        /\ (uout[i].simulation_type \in FluidTypes =>
                uout[i].physics_settings.resolution_max >= 32)

\* the text holds an import statement for bpy: a line that is no comment
\* and begins with import bpy or from bpy import
HasImportStatement(text) ==
    \E i \in DOMAIN text :
        \/ Len(text[i]) >= 2 /\ SubSeq(text[i], 1, 2) = <<"import", "bpy">>
        \/ Len(text[i]) >= 3
              /\ SubSeq(text[i], 1, 3) = <<"from", "bpy", "import">>

\* C21: an artifact whose text has no import statement for bpy is reported
\* invalid with the error that names the missing import; a mention of the
\* import inside a comment is no import statement.
C21_MissingImport ==
    (uout # None /\ ~HasImportStatement(uin.text))
        => /\ ~uout.is_valid
           /\ \E i \in DOMAIN uout.errors : uout.errors[i] = MissingBpy

\* C22: a failure that leaves BaseAgent.run is a taxonomy error with a
\* classification and a recoverable flag; a taxonomy error raised by the
\* stage leaves unchanged; the error counter rises by exactly one and the
\* total time stays as it was.
C22_ClassifiedFailure ==
    (uout.op = "run" /\ uout.raised) =>
        /\ uout.left.taxonomy
        /\ uout.left.error_type \in ErrorTypes
        /\ uout.left.recoverable \in BOOLEAN
        /\ (uout.thrown.taxonomy => uout.left = uout.thrown)
        /\ uin.st.error_count = uout.before.error_count + 1
        /\ uin.st.total_time = uout.before.total_time

\* C23: get_stats() reports the number of run() calls since the last reset,
\* failed ones included, the number of failed ones, and the sum of the
\* recorded elapsed times; right after reset_stats() all three are zero and
\* the average time is 0.
C23_RunningStatistics ==
    /\ get_stats(uin.st).executions = uin.runs
    /\ get_stats(uin.st).errors = uin.failed
    /\ get_stats(uin.st).total_time = 1000 * uin.recorded
    /\ (uout.op = "reset" =>
           /\ get_stats(uin.st).executions = 0
           /\ get_stats(uin.st).errors = 0
           /\ get_stats(uin.st).total_time = 0
           /\ get_stats(uin.st).average_time = 0)

\* C24: a taxonomy error carries a message, a recoverable flag and a
\* suggested action; recoverable is false exactly for requirements errors,
\* resource errors and configuration errors.
C24_RecoverableFlag ==
    (uout.op = "run" /\ uout.raised /\ uout.thrown.taxonomy) =>
        /\ uout.thrown.msg # <<>>
        /\ uout.thrown.suggested_action # <<>>
        /\ (~uout.thrown.recoverable
              <=> (\/ uout.thrown.error_type = "REQUIREMENTS_ERROR"
                   \/ uout.thrown.cls \in {"PlanningError", "ResourceError",
                                            "ConfigurationError"}))

\* the names of the plan parameters an edit may address
KnownParameters ==
    {<<"g", "r", "a", "v", "i", "t", "y">>,
     <<"s", "u", "b", "s", "t", "e", "p", "s">>,
     <<"s", "o", "l", "v", "e", "r", "_", "i", "t", "e", "r", "a", "t", "i", "o", "n", "s">>,
     <<"r", "e", "s", "o", "l", "u", "t", "i", "o", "n">>,
     <<"d", "u", "r", "a", "t", "i", "o", "n">>,
     <<"t", "i", "m", "e", "_", "s", "c", "a", "l", "e">>,
     <<"o", "b", "j", "e", "c", "t", "_", "s", "c", "a", "l", "e">>}

\* an edit that names a plan parameter with a value that can be applied
AppliesTo(edit) ==
    /\ Normalise(edit.parameter) \in KnownParameters
    /\ Converts(MatchedKind[edit.parameter], edit.form)

\* C25: an edit with an unknown parameter name leaves the plan unchanged,
\* an edit whose value cannot be applied is skipped, the other edits are
\* applied in order, and run() does not fail: the refined plan is the one
\* that the edits with a known name and an applicable value produce.
C25_Dispatcher ==
    (uout # None /\ uout.answered) =>
        /\ ~uout.raised
        /\ LET kept == SelectSeq(uin.edits, AppliesTo)
               changes == [i \in DOMAIN kept |-> MatchedChange(kept[i])]
               expected == apply_suggestions(uin.heap, 1, changes)
           IN uout.refined = DeepValue(expected[1], expected[2])

\* C26: run() returns a result only if the engine exited with code 0 and
\* this execution produced the output file; an exit code other than 0 or
\* an execution that produced no file raises an ExecutionError, also when
\* the output location already held a file.
C26_OutputProduced ==
    uout # None =>
        /\ (uout.returned =>
               /\ uout.run.kind = "exit"
               /\ uout.run.returncode = 0
               /\ uout.run.wrote)
        /\ ((uout.run.kind = "exit"
                /\ (uout.run.returncode # 0 \/ ~uout.run.wrote))
              => (~uout.returned /\ uout.raised.cls = "ExecutionError"))

\* C27: for every max_retries >= 0 the call makes at most max_retries
\* attempts, returns at the first attempt that answers, sleeps after every
\* failed attempt but the last possible one, and raises ClaudeAPIError when
\* every attempt has failed.
C27_BoundedRetry ==
    uout # None =>
        /\ uout.attempts <= uin.max_retries
        /\ (uout.returned =>
               /\ uin.outcomes[uout.attempts] = "answers"
               /\ \A i \in 1..(uout.attempts - 1) : uin.outcomes[i] # "answers"
               /\ Len(uout.sleeps) = uout.attempts - 1)
        /\ (~uout.returned =>
               /\ \A i \in 1..uin.max_retries : uin.outcomes[i] # "answers"
               /\ uout.attempts = uin.max_retries
               /\ Len(uout.sleeps) = uout.attempts - 1
               /\ uout.raised.cls = "ClaudeAPIError")

\* the statuses a job may be given, in their order
StatusOrders ==
    {<<>>, <<"queued">>, <<"queued", "running">>,
     <<"queued", "running", "completed">>, <<"queued", "running", "failed">>}

\* C28: whatever status, stream and DELETE requests come in between,
\* run_generation ends without raising, a job's status only moves queued,
\* running, then completed or failed, and a job that still exists when
\* run_generation has ended is completed with progress 1.0 and a result, or
\* failed with errors.
C28_JobLifecycle ==
    \A job_id \in JobIds :
        /\ uout.raised[job_id] = NoExc
        /\ uin.task[job_id] # "raised"
        /\ uout.assigned[job_id] \in StatusOrders
        /\ ((uin.task[job_id] = "ended" /\ uin.active_jobs[job_id] # None) =>
               LET job == uin.active_jobs[job_id]
               IN \/ /\ job.status = "completed"
                     /\ job.progress = 100
                     /\ job.result # None
                  \/ /\ job.status = "failed"
                     /\ job.errors # <<>>)

\* C29: a scene without a camera or without physics setup scores below
\* the gate threshold 0.8, so the gate with threshold 0.8 decides to refine
\* it for a critical reason and never reports it as meeting the threshold.
C29_CriticalBelowThreshold ==
    (/\ uout # None
     /\ uin.threshold = GateThreshold
     /\ (~uin.inspection_data.has_camera \/ ~uin.inspection_data.has_physics))
        => /\ uout.metrics.quality_score < GateThreshold
           /\ uout.gate[1]
           /\ uout.gate[2].text \in {"Critical: Missing physics setup",
                                      "Critical: Missing camera"}

\* C30: a returned result has success=true exactly when its errors list is
\* empty; a successful result has its artifact location and its quality
\* assessment set and reports a score that is at least the main run's; a
\* failed result has refinement_count 0.
C30_ResultConsistent ==
    pc = "returned" =>
        /\ (result.success <=> result.errors = <<>>)
        /\ (result.success =>
               /\ result.blend_file = OutputPath
               /\ result.quality_metrics # None
               /\ result.quality_metrics.quality_score >= main_score
               /\ main_score >= 0)
        /\ (~result.success => result.refinement_count = 0)

C30_Witness ==
    /\ pc = "returned"
    /\ result.success
    /\ result.errors = <<>>
    /\ result.refinement_count = 1
    /\ result.quality_metrics.quality_score > main_score
    /\ calls = MaxCalls

====
